---- MODULE Spec2Model ----
(***************************************************************************)
(* State-machine model of the FMB TimeTracker server: the REST handlers of *)
(* server/routes.ts over the MS SQL storage (FmbStorage), the SAML login   *)
(* flow and its authentication middleware, the MS SQL session store, and   *)
(* the session pool manager with its reconnection and cleanup logic.       *)
(***************************************************************************)
EXTENDS Integers, FiniteSets, Sequences, TLC

\* ------------------------------------------------------------------------
\* Bounds of the model
\* ------------------------------------------------------------------------
MaxUsers == 2
MaxProjects == 1
MaxTasks == 1
MaxSids == 2
\* The database clock runs over 0..MaxTime.
MaxTime == 2
\* At most MaxTimers reconnect timers are pending at once.
MaxTimers == 3
\* The count of attempts made since the last success saturates here.
MaxTracked == 7
\* Requests of one browser that can be in flight together.
MaxReqs == 3
\* Distinct session payloads a handler can leave in its session.
MaxVersions == 2
\* Calendar dates a project's date range is drawn from.
MaxDate == 2
\* Rows of the time_entries table.
MaxEntries == 1
MaxDepts == 1
MaxDeptValue == 2
MaxExpired == 5
MaxPools == 3
MaxCalls == 2

\* getSession: the production session secret should have this many characters.
minSecretLen == 32

UserIds == 1..MaxUsers
ProjectIds == 1..MaxProjects
TaskIds == 1..MaxTasks
Sids == 1..MaxSids

\* ------------------------------------------------------------------------
\* Roles
\* ------------------------------------------------------------------------
\* The role enumeration accepted by the role-changing routes.
validRoles == {"admin", "manager", "project_manager", "employee", "viewer"}

\* The role the SAML verify callback of fmb-saml-auth.ts passes to upsertUser.
SamlRoleA == "user"

\* The role the SAML verify callback of the second SAML module passes.
SamlRoleB == "employee"

\* Every value the users.role column can hold (the column has no CHECK).
RoleValues == validRoles \cup {SamlRoleA}

NoRow == "none"

ProjectStatus == {"active", "completed"}

\* ------------------------------------------------------------------------
\* State
\* ------------------------------------------------------------------------
VARIABLES
    nodeEnv,        \* process.env.NODE_ENV
    fmbDeployment,  \* process.env.FMB_DEPLOYMENT
    build,          \* which of the two SAML/storage module pairs is deployed
    users,          \* users table: email index -> role, or NoRow
    projects,       \* projects table: id -> status, or NoRow
    tasks,          \* tasks table: id -> [project, status], or NoTask
    sessions,       \* session store contents seen by the HTTP layer
    usedSids,       \* session ids generated so far
    preLogin,       \* session ids that carried a request into a successful ACS
    resp,           \* the last HTTP exchange
    storePool,      \* CustomMSSQLStore.pool: "null", "connected" or "closed"
    rows,           \* sessions table: sid -> [data, expires], or NoSessRow
    now,            \* the database clock, GETDATE()
    mgrVersion,     \* which OptimizedSessionManager source is deployed
    mgrPool,        \* pool of the manager that runs the cleanup
    sessionStore,   \* the store getSession gave the middleware
    lastOp,         \* the last session operation and what its caller got
    reconnectAttempts, \* OptimizedSessionManager.reconnectAttempts
    timers,         \* reconnect timers set by setTimeout and not yet run
    dbUp,           \* whether pool.connect() succeeds
    lastSched,      \* counter and delay of the timer scheduled last
    attemptsSince,  \* failed reconnection attempts since the last success
    scheduledSince, \* timers scheduled since the last success
    lastEvent,      \* what the manager did last
    stored,         \* session column of the sessions table: sid -> payload
    reqs,           \* requests in flight: what each holds of its session
    loggedOut,      \* session ids whose logout request has been answered
    lastReq,        \* the request or store call that completed last
    projectRows,    \* projects table with its columns: id -> row
    taskRows,       \* tasks.project_id: task id -> project id, 0 for no row
    projectEmployees, \* project ids that have project_employees rows
    timeEntries,    \* time_entries table: id -> its two references
    lastCall,       \* the last project request and its answer
    cfg,            \* which configuration values the environment provides
    boot,           \* what createServer has set up
    lastProbe,      \* the last health request or fallback-storage call
    departments,    \* departments table: id -> row
    lastSql,        \* the last department request and the statement it ran
    expiredRows,    \* number of sessions rows with expires < GETDATE()
    proc,           \* sp_CleanupExpiredSessions: position and its variables
    lastDelete,     \* the DELETE a cleanup ran last: who ran it, rows removed
    pools,          \* every sql.ConnectionPool object created: id -> state
    thisPool,       \* OptimizedSessionManager.pool: a pool id, 0 for null
    calls,          \* calls of initializeSessionPool: position and own pool
    retry,          \* reconnectAttempts and the timers not yet run
    storedRole,     \* users.role of the administrator
    markers,        \* session id -> originalRole and testingRole of it
    lastRoleReq     \* the last role-testing request and its answer

apiVars == <<nodeEnv, fmbDeployment, build, users, projects, tasks,
             sessions, usedSids, preLogin, resp>>

storeVars == <<storePool, rows, now, mgrVersion, mgrPool, sessionStore, lastOp>>

poolVars == <<reconnectAttempts, timers, dbUp, lastSched, attemptsSince,
              scheduledSince, lastEvent>>

reqVars == <<stored, reqs, loggedOut, lastReq>>

dataVars == <<projectRows, taskRows, projectEmployees, timeEntries, lastCall>>

\* Startup, health, and the parts checked on their own.
bootVars == <<cfg, boot, lastProbe>>

queryVars == <<departments, lastSql>>

cleanVars == <<expiredRows, proc, lastDelete>>

initVars == <<pools, thisPool, calls, retry>>

roleVars == <<storedRole, markers, lastRoleReq>>

extVars == <<bootVars, queryVars, cleanVars, initVars, roleVars>>

\* Everything the REST and login handlers of the first part leave alone.
sessionVars == <<storeVars, poolVars, reqVars, dataVars, extVars>>

vars == <<apiVars, storeVars, poolVars, reqVars, dataVars, extVars>>

NoTask == [project |-> 0, status |-> "none"]

TaskStatus == {"pending", "completed"}

NoSession == [live |-> FALSE, user |-> 0, flag |-> FALSE, passport |-> 0]

AnonSession == [live |-> TRUE, user |-> 0, flag |-> FALSE, passport |-> 0]

\* The session contents POST /saml/acs of fmb-saml-auth.ts leaves behind.
LoggedIn(u) == [live |-> TRUE, user |-> u, flag |-> TRUE, passport |-> u]

NoResp == [route |-> "none", sid |-> 0, caller |-> 0, role |-> "none",
           status |-> 0, testUser |-> FALSE, handlerRan |-> FALSE,
           writes |-> 0, target |-> 0, anon |-> FALSE, body |-> "none",
           location |-> "none", cause |-> "none", reason |-> "none"]

\* ------------------------------------------------------------------------
\* Deployment mode
\* ------------------------------------------------------------------------
isFmbOnPremEnvironment ==
    IF nodeEnv = "development" THEN FALSE ELSE fmbDeployment = "onprem"

\* registerRoutes: SAML authentication is installed only on-prem in production.
useFmbAuth == isFmbOnPremEnvironment /\ nodeEnv = "production"

\* ------------------------------------------------------------------------
\* FmbStorage
\* ------------------------------------------------------------------------
\* SELECT * FROM users WHERE id = @id.  Row ids are generated by upsertUser
\* as "user-<timestamp>" and never equal an e-mail address, so a lookup keyed
\* by an e-mail finds no row.
getUser(us, key) ==
    IF key.kind = "id" /\ us[key.u] # NoRow THEN key.u ELSE 0

getUserByEmail(us, u) == IF us[u] # NoRow THEN u ELSE 0

\* Existing e-mail: UPDATE ... role = @role; otherwise INSERT with that role.
upsertUser(us, u, role) == [us EXCEPT ![u] = role]

\* DELETE FROM projects WHERE id = @id; tasks go with it (ON DELETE CASCADE).
deleteProject(ps, p) == [ps EXCEPT ![p] = NoRow]

cascadeTasks(ts, p) ==
    [t \in TaskIds |-> IF ts[t].project = p THEN NoTask ELSE ts[t]]

\* Value the route sees from deleteProject: fmb-storage.ts returns nothing,
\* the FmbStorage of the second module pair returns true.
deleteProjectResult == build = "B"

\* ------------------------------------------------------------------------
\* Authentication
\* ------------------------------------------------------------------------
\* passport.serializeUser: the row id (pair A) or the SAML nameID (pair B).
serializedKey(u) == [kind |-> IF build = "A" THEN "id" ELSE "email", u |-> u]

\* passport.session + deserializeUser: req.user, or 0 when there is none.
reqUser(s) ==
    IF sessions[s].live /\ sessions[s].passport # 0
    THEN getUser(users, serializedKey(sessions[s].passport))
    ELSE 0

\* isAuthenticated of fmb-saml-auth.ts: session.user and the session flag.
isAuthenticatedA(s) ==
    IF sessions[s].live /\ sessions[s].user # 0 /\ sessions[s].flag
    THEN "next" ELSE "401"

\* req.isAuthenticated() && req.user, as passport computes them.
passportAuthenticated(s) ==
    sessions[s].live /\ sessions[s].passport # 0 /\ reqUser(s) # 0

\* Variant of isAuthenticatedB that grants the test identity whatever
\* NODE_ENV is.
isAuthenticatedB_AnyEnv(s) ==
    IF ~passportAuthenticated(s)
    THEN "bypass"
    ELSE IF ~passportAuthenticated(s) THEN "401" ELSE "next"

\* isAuthenticated of the second SAML module: the test identity is granted
\* only when NODE_ENV is "development".
isAuthenticatedB(s) ==
    IF nodeEnv = "development" /\ ~passportAuthenticated(s)
    THEN "bypass"
    ELSE IF ~passportAuthenticated(s) THEN "401" ELSE "next"

\* isAuthenticated of server/replitAuth, installed outside on-prem production:
\* the development bypass that injects the fixed test administrator.
replitAuth(s) == "bypass"

\* Outcome of the authentication middleware registerRoutes puts in front of
\* every protected route.
authOutcome(s) ==
    IF useFmbAuth
    THEN IF build = "A" THEN isAuthenticatedA(s) ELSE isAuthenticatedB(s)
    ELSE replitAuth(s)

\* The session resolves to an authenticated session.
Authenticated(s) == sessions[s].live /\ authOutcome(s) = "next"

\* The user row and role a handler sees for an authenticated request.
callerOf(s) == reqUser(s)

roleOf(u) == IF u # 0 /\ users[u] # NoRow THEN users[u] ELSE "employee"

\* ------------------------------------------------------------------------
\* The MS SQL session store (CustomMSSQLStore) and the sessions table
\* ------------------------------------------------------------------------
\* The cookie lifetime of getSession, in clock units (7 days).
sessionTtl == 1

Times == 0..(MaxTime + sessionTtl)

\* expires = NULL: set() stores null when the cookie carries no expiry.
NullExpires == -1

Expiries == Times \cup {NullExpires}

NoSessRow == [present |-> FALSE, expires |-> NullExpires]

SessRow(e) == [present |-> TRUE, expires |-> e]

\* Columns of the table the store's ensureSessionTable creates.
tableColumns == {"sid", "session", "expires"}

StoreOps == {"get", "set", "destroy", "touch", "length", "clear"}

NoOp == [op |-> "none", sid |-> 0, err |-> FALSE, result |-> "none",
         count |-> 0, status |-> 0, expires |-> NullExpires]

\* A request on the store's pool: it throws unless the pool is connected
\* and every column the statement names exists.
queryFails(pool, cols) == pool # "connected" \/ ~(cols \subseteq tableColumns)

\* WHERE sid = @sid, without the expiry condition.
getSelects_NoExpiry(row, t) == row.present

\* WHERE sid = @sid AND (expires IS NULL OR expires > GETDATE())
getSelects(row, t) ==
    row.present /\ (row.expires = NullExpires \/ row.expires > t)

\* CustomMSSQLStore.get: what the callback receives.
Get(pool, rs, s, t) ==
    IF pool = "null" THEN [err |-> TRUE, result |-> "none"]
    ELSE IF queryFails(pool, {"sid", "session", "expires"})
         THEN [err |-> TRUE, result |-> "none"]
    ELSE IF ~getSelects(rs[s], t) THEN [err |-> FALSE, result |-> "null"]
    ELSE [err |-> FALSE, result |-> "session"]

\* IF EXISTS ... UPDATE ... ELSE INSERT: either way the row holds @expires.
Set(rs, s, e) == [rs EXCEPT ![s] = SessRow(e)]

Destroy(rs, s) == [rs EXCEPT ![s] = NoSessRow]

\* UPDATE sessions SET expires = @expires WHERE sid = @sid
Touch(rs, s, e) == IF rs[s].present THEN [rs EXCEPT ![s] = SessRow(e)] ELSE rs

\* SELECT COUNT(*) ... WHERE expires IS NULL OR expires > GETDATE()
Length(rs, t) ==
    Cardinality({s \in Sids : rs[s].present /\
                    (rs[s].expires = NullExpires \/ rs[s].expires > t)})

Clear(rs) == [s \in Sids |-> NoSessRow]

\* The column the deployed manager's cleanup statement compares.
cleanupColumn == IF mgrVersion = "v1" THEN "expire" ELSE "expires"

\* OptimizedSessionManager.cleanupExpiredSessions: the table afterwards.
\* A NULL expiry never satisfies "< GETDATE()".
cleanupExpiredSessions(pool, rs, t) ==
    IF pool = "null" THEN rs
    ELSE IF pool # "connected" \/ cleanupColumn \notin tableColumns THEN rs
    ELSE [s \in Sids |->
            IF rs[s].present /\ rs[s].expires # NullExpires /\ rs[s].expires < t
            THEN NoSessRow ELSE rs[s]]

\* createSessionAvailabilityMiddleware is exported but no app.use mounts it.
sessionAvailabilityMounted == FALSE

\* The store side while the REST layer is explored, and the reverse.
StoreIdle ==
    /\ storePool = "connected"
    /\ rows = [s \in Sids |-> NoSessRow]
    /\ now = 0
    /\ mgrVersion = "v1"
    /\ mgrPool = "null"
    /\ sessionStore = "mssql"
    /\ lastOp = NoOp

\* ------------------------------------------------------------------------
\* Requests in flight on one session
\* ------------------------------------------------------------------------
ReqIds == 1..MaxReqs

\* A session payload: the logged-in user it carries (0 for none) and the
\* version of the data a handler left in it.
Payloads == [user : {0, 1}, v : 1..MaxVersions]

NoPayload == [user |-> 0, v |-> 0]

IdleReq == [pc |-> "idle", sid |-> 0, sess |-> NoPayload, branch |-> "none",
            afterLogout |-> FALSE]

NoReq == [kind |-> "none", sid |-> 0, status |-> 0, err |-> FALSE,
          payload |-> NoPayload, afterLogout |-> FALSE]

\* No request has arrived and the table holds no session.
ReqIdle ==
    /\ stored = [s \in Sids |-> NoPayload]
    /\ reqs = [r \in ReqIds |-> IdleReq]
    /\ loggedOut = {}
    /\ lastReq = NoReq

\* ------------------------------------------------------------------------
\* Project rows, the rows that reference them, and the schema's constraints
\* ------------------------------------------------------------------------
Dates == 1..MaxDate

EntryIds == 1..MaxEntries

\* SQL NULL in a DATE or reference column.
Null == 0

\* A key the request body does not carry (undefined after parsing).
Undefined == -1

\* The columns followed here: status, the date range, and is_template as
\* one of the flags the schema gives a default.
ProjectFields == {"status", "startDate", "endDate", "isTemplate"}

NoProjectRow == [status |-> "none", startDate |-> Null, endDate |-> Null,
                 isTemplate |-> 0]

NoEntry == [present |-> FALSE, project |-> Null, task |-> Null]

Entry(p, t) == [present |-> TRUE, project |-> p, task |-> t]

\* Request bodies.  The status "bogus" stands for a body the schema
\* rejects; a name is taken to be present where the schema requires one.
Bodies == [status : ProjectStatus \cup {"absent", "bogus"},
           startDate : Dates \cup {Undefined},
           endDate : Dates \cup {Undefined},
           isTemplate : {Undefined, 0, 1}]

NoCall == [route |-> "none", id |-> 0, status |-> 0, keys |-> {},
           endsBeforeStart |-> FALSE, setsUpdatedAt |-> FALSE,
           hours |-> 0, wellFormed |-> FALSE]

DataIdle ==
    /\ projectRows = [p \in ProjectIds |-> NoProjectRow]
    /\ taskRows = [t \in TaskIds |-> 0]
    /\ projectEmployees = {}
    /\ timeEntries = [e \in EntryIds |-> NoEntry]
    /\ lastCall = NoCall

\* The manager after construction: no pool, counter 0, no timer.
PoolIdle ==
    /\ reconnectAttempts = 0
    /\ timers = 0
    /\ dbUp = TRUE
    /\ lastSched = [n |-> 0, delay |-> 0]
    /\ attemptsSince = 0
    /\ scheduledSince = 0
    /\ lastEvent = "none"

\* The environment with every required value present and the database up.
NoCfg == [db |-> TRUE, saml |-> TRUE, secretLen |-> minSecretLen,
          reachable |-> TRUE]

\* createServer has not run.
NoBoot == [phase |-> "starting", storage |-> "none", instance |-> "null",
           store |-> "none", auth |-> "none", error |-> "none"]

NoProbe == [op |-> "none", object |-> "none", status |-> 0, result |-> "none"]

BootIdle ==
    /\ cfg = NoCfg
    /\ boot = NoBoot
    /\ lastProbe = NoProbe

DeptIds == 1..MaxDepts

NoDept == [name |-> 0, description |-> 0, managerId |-> 0]

NoSql == [route |-> "none", id |-> 0, status |-> 0, executed |-> FALSE,
          fields |-> <<>>, params |-> <<>>]

QueryIdle ==
    /\ departments = [d \in DeptIds |-> NoDept]
    /\ lastSql = NoSql

NoProc == [pc |-> "idle", rowsDeleted |-> 0, totalDeleted |-> 0,
           pauses |-> 0]

NoDelete == [by |-> "none", count |-> 0]

CleanIdle ==
    /\ expiredRows = 0
    /\ proc = NoProc
    /\ lastDelete = NoDelete

PoolIds == 1..MaxPools

CallIds == 1..MaxCalls

NoInitCall == [pc |-> "idle", pool |-> 0]

\* The manager after getInstance: no pool object yet, no call in progress.
InitIdle ==
    /\ pools = [p \in PoolIds |-> "none"]
    /\ thisPool = 0
    /\ calls = [c \in CallIds |-> NoInitCall]
    /\ retry = [attempts |-> 0, timers |-> 0]

NoMarker == [originalRole |-> "none", testingRole |-> FALSE]

NoRoleReq == [route |-> "none", sid |-> 0, status |-> 0, testRole |-> "none"]

RoleIdle ==
    /\ storedRole = "admin"
    /\ markers = [s \in Sids |-> NoMarker]
    /\ lastRoleReq = NoRoleReq

ExtIdle ==
    /\ BootIdle
    /\ QueryIdle
    /\ CleanIdle
    /\ InitIdle
    /\ RoleIdle

ApiQuiet ==
    /\ nodeEnv = "production"
    /\ fmbDeployment = "onprem"
    /\ users = [u \in UserIds |-> NoRow]
    /\ projects = [p \in ProjectIds |-> NoRow]
    /\ tasks = [t \in TaskIds |-> NoTask]
    /\ sessions = [s \in Sids |-> NoSession]
    /\ usedSids = {}
    /\ preLogin = {}
    /\ resp = NoResp

ApiIdle == build = "A" /\ ApiQuiet

\* ------------------------------------------------------------------------
\* Initial state
\* ------------------------------------------------------------------------
InitApi ==
    /\ nodeEnv \in {"development", "production"}
    /\ fmbDeployment \in {"onprem", "unset"}
    /\ nodeEnv = "production" => fmbDeployment = "onprem"
    /\ build \in {"A", "B"}
    /\ users \in [UserIds -> validRoles \cup {NoRow}]
    /\ \A u \in UserIds \ {1} : users[u] \in {"manager", NoRow}
    /\ nodeEnv = "development" => users = [u \in UserIds |-> NoRow]
    /\ projects = [p \in ProjectIds |-> IF p = 1 THEN "active" ELSE NoRow]
    /\ tasks = [t \in TaskIds |-> [project |-> 1, status |-> "pending"]]
    /\ \/ /\ sessions = [s \in Sids |-> NoSession]
          /\ usedSids = {}
       \/ /\ useFmbAuth /\ build = "A" /\ users[1] # NoRow
          /\ sessions = [s \in Sids |-> IF s = 1 THEN LoggedIn(1)
                                                  ELSE NoSession]
          /\ usedSids = {1}
    /\ preLogin = {}
    /\ resp = NoResp
    /\ StoreIdle
    /\ PoolIdle
    /\ ReqIdle
    /\ DataIdle
    /\ ExtIdle

\* ------------------------------------------------------------------------
\* Session creation and SAML login
\* ------------------------------------------------------------------------
\* A request without a session cookie: express-session generates an id.
NewVisit(f) ==
    /\ f \notin usedSids
    /\ usedSids' = usedSids \cup {f}
    /\ sessions' = [sessions EXCEPT ![f] = AnonSession]
    /\ resp' = [NoResp EXCEPT !.route = "GET /api/login", !.sid = f,
                              !.status = 302]
    /\ UNCHANGED <<sessionVars, nodeEnv, fmbDeployment, build, users,
                   projects, tasks,
                   preLogin>>

\* POST /saml/acs of fmb-saml-auth.ts with an assertion the IdP issued for u.
AcsA(s, u, f) ==
    /\ useFmbAuth /\ build = "A"
    /\ sessions[s].live
    /\ f \notin usedSids
    /\ users' = upsertUser(users, u, SamlRoleA)
    /\ usedSids' = usedSids \cup {f}
    /\ sessions' = [sessions EXCEPT
                      ![s] = NoSession,
                      ![f] = LoggedIn(u)]
    /\ preLogin' = preLogin \cup {s}
    /\ resp' = [NoResp EXCEPT !.route = "POST /saml/acs", !.sid = f,
                              !.location = "/",
                              !.caller = u, !.status = 302, !.writes = 1,
                              !.target = s, !.role = users[u]]
    /\ UNCHANGED <<sessionVars, nodeEnv, fmbDeployment, build, projects, tasks>>

\* POST /saml/acs of the second module: passport.authenticate with
\* successRedirect; whether req.logIn regenerates the session depends on
\* the passport release that is installed.
AcsB(s, u, f, regen) ==
    /\ useFmbAuth /\ build = "B"
    /\ sessions[s].live
    /\ f \notin usedSids
    /\ users' = upsertUser(users, u, SamlRoleB)
    /\ IF regen
       THEN /\ usedSids' = usedSids \cup {f}
            /\ sessions' = [sessions EXCEPT
                              ![s] = NoSession,
                              ![f] = [live |-> TRUE, user |-> 0,
                                      flag |-> FALSE, passport |-> u]]
            /\ resp' = [NoResp EXCEPT !.route = "POST /saml/acs", !.sid = f,
                                      !.location = "/",
                                      !.caller = u, !.status = 302,
                                      !.writes = 1, !.target = s,
                                      !.role = users[u]]
       ELSE /\ usedSids' = usedSids
            /\ sessions' = [sessions EXCEPT
                              ![s] = [live |-> TRUE, user |-> u,
                                      flag |-> FALSE, passport |-> u]]
            /\ resp' = [NoResp EXCEPT !.route = "POST /saml/acs", !.sid = s,
                                      !.location = "/",
                                      !.caller = u, !.status = 302,
                                      !.writes = 1, !.target = s,
                                      !.role = users[u]]
    /\ preLogin' = preLogin \cup {s}
    /\ UNCHANGED <<sessionVars, nodeEnv, fmbDeployment, build, projects, tasks>>

\* Why an assertion is turned down: it is invalid (the strategy reports an
\* error) or it is valid but yields no user.
AcsFailures == {"auth_error", "no_user"}

\* POST /saml/acs of fmb-saml-auth.ts turning an assertion down: the custom
\* callback redirects to '/login-error' both for err and for a missing
\* user, before regenerate or logIn are reached.
AcsFailA(s, cause) ==
    /\ useFmbAuth /\ build = "A"
    /\ sessions[s].live
    /\ resp' = [NoResp EXCEPT !.route = "POST /saml/acs", !.target = s,
                              !.status = 302, !.location = "/login-error",
                              !.cause = cause]
    /\ UNCHANGED <<sessionVars, nodeEnv, fmbDeployment, build, users,
                   projects, tasks, sessions, usedSids, preLogin>>

\* The same in the second module: passport redirects to failureRedirect
\* when the strategy fails, and passes a strategy error to next(err), which
\* the framework answers with 500.
AcsFailB(s, cause) ==
    /\ useFmbAuth /\ build = "B"
    /\ sessions[s].live
    /\ resp' = IF cause = "no_user"
               THEN [NoResp EXCEPT !.route = "POST /saml/acs", !.target = s,
                                   !.status = 302,
                                   !.location = "/login-error",
                                   !.cause = cause]
               ELSE [NoResp EXCEPT !.route = "POST /saml/acs", !.target = s,
                                   !.status = 500, !.cause = cause]
    /\ UNCHANGED <<sessionVars, nodeEnv, fmbDeployment, build, users,
                   projects, tasks, sessions, usedSids, preLogin>>

\* ------------------------------------------------------------------------
\* Protected routes: outcomes decided by the authentication middleware
\* ------------------------------------------------------------------------
Routes == {"POST /api/projects", "PATCH /api/projects/:id",
           "PUT /api/projects/:id", "DELETE /api/projects/:id",
           "POST /api/tasks", "PUT /api/tasks/:id", "DELETE /api/tasks/:id",
           "POST /api/users/change-role",
           "POST /api/admin/users/:userId/role"}

\* The middleware answers 401 and the handler is never entered.
Unauthorized(route, s) ==
    /\ sessions[s].live
    /\ authOutcome(s) = "401"
    /\ resp' = [NoResp EXCEPT !.route = route, !.status = 401,
                              !.anon = (sessions[s] = AnonSession)]
    /\ UNCHANGED <<sessionVars, nodeEnv, fmbDeployment, build, users,
                   projects, tasks,
                   sessions, usedSids, preLogin>>

\* The middleware injects the test administrator and calls the handler.
\* Outside on-prem production getStorage() returns the module namespace of
\* server/storage, which has none of the storage methods: the handler's
\* first storage call throws and its catch block answers 500.
DevBypass(route, s) ==
    /\ sessions[s].live
    /\ authOutcome(s) = "bypass"
    /\ resp' = [NoResp EXCEPT !.route = route, !.status = 500,
                              !.testUser = TRUE, !.handlerRan = TRUE,
                              !.anon = (sessions[s] = AnonSession)]
    /\ UNCHANGED <<sessionVars, nodeEnv, fmbDeployment, build, users,
                   projects, tasks,
                   sessions, usedSids, preLogin>>

\* An authenticated request reaches the handler of the route.
Enter(s) ==
    /\ sessions[s].live
    /\ authOutcome(s) = "next"
    /\ callerOf(s) # 0

\* The response of a handler that ran for the caller of session s.
Reply(route, s, status, writes, target) ==
    [NoResp EXCEPT !.route = route, !.caller = callerOf(s),
                   !.role = roleOf(callerOf(s)), !.status = status,
                   !.handlerRan = TRUE, !.writes = writes, !.target = target]

\* ------------------------------------------------------------------------
\* Route handlers (server/routes.ts) over FmbStorage
\* ------------------------------------------------------------------------
\* The methods class FmbStorage defines, among those the handlers call.
FmbStorageMethods == {"getUser", "getUserByEmail", "upsertUser",
                      "getProjectById", "createProject", "updateProject",
                      "deleteProject", "getTaskById", "createTask",
                      "updateTask", "deleteTask"}

\* Roles that pass the role test a handler performs itself; a handler
\* without such a test lets every role through.
handlerAllows(route) ==
    CASE route = "POST /api/projects" -> {"admin", "project_manager"}
      [] route = "POST /api/tasks" -> {"admin", "project_manager"}
      [] route = "PUT /api/tasks/:id" -> {"admin", "project_manager"}
      [] route = "POST /api/admin/users/:userId/role" -> {"admin"}
      [] OTHER -> RoleValues

\* Request bodies: two valid roles, a missing role and an unknown one.
BodyRoles == {"admin", "viewer", "", "superuser"}

\* POST /api/projects.  The parsed body has no user id (the schema drops
\* the key), so the INSERT carries NULL for the NOT NULL column user_id
\* and the database rejects it.
PostProject(s, valid) ==
    LET route == "POST /api/projects" IN
    /\ Enter(s)
    /\ resp' = IF roleOf(callerOf(s)) \notin handlerAllows(route)
               THEN Reply(route, s, 403, 0, 0)
               ELSE IF ~valid THEN Reply(route, s, 400, 0, 0)
               ELSE Reply(route, s, 500, 1, 0)
    /\ UNCHANGED <<sessionVars, nodeEnv, fmbDeployment, build, users,
                   projects, tasks,
                   sessions, usedSids, preLogin>>

\* PATCH and PUT /api/projects/:id: parse the partial body, updateProject,
\* 404 when no row comes back.  Neither handler tests the caller's role.
UpdateProject(route, s, p, status) ==
    /\ route \in {"PATCH /api/projects/:id", "PUT /api/projects/:id"}
    /\ Enter(s)
    /\ IF status = "bogus"
       THEN /\ resp' = Reply(route, s, 400, 0, p)
            /\ UNCHANGED projects
       ELSE /\ projects' = IF status # "absent" /\ projects[p] # NoRow
                           THEN [projects EXCEPT ![p] = status]
                           ELSE projects
            /\ resp' = Reply(route, s,
                             IF projects[p] = NoRow THEN 404 ELSE 200,
                             IF status = "absent" THEN 0 ELSE 1, p)
    /\ UNCHANGED <<sessionVars, nodeEnv, fmbDeployment, build, users, tasks,
                   sessions, usedSids, preLogin>>

\* DELETE /api/projects/:id: deleteProject, then 404 when it returned a
\* falsy value and 204 otherwise.  The handler does not test the role.
DeleteProject(s, p) ==
    LET route == "DELETE /api/projects/:id" IN
    /\ Enter(s)
    /\ projects' = deleteProject(projects, p)
    /\ tasks' = cascadeTasks(tasks, p)
    /\ resp' = Reply(route, s, IF deleteProjectResult THEN 204 ELSE 404, 1, p)
    /\ UNCHANGED <<sessionVars, nodeEnv, fmbDeployment, build, users,
                   sessions, usedSids, preLogin>>

\* POST /api/tasks: role test, body parse, then activeStorage.getProject,
\* which FmbStorage does not define: the call throws and the catch block
\* answers 500.
PostTask(s, valid) ==
    LET route == "POST /api/tasks" IN
    /\ Enter(s)
    /\ resp' = IF roleOf(callerOf(s)) \notin handlerAllows(route)
               THEN Reply(route, s, 403, 0, 0)
               ELSE IF ~valid THEN Reply(route, s, 400, 0, 0)
               ELSE IF "getProject" \notin FmbStorageMethods
                    THEN Reply(route, s, 500, 0, 0)
                    ELSE Reply(route, s, 201, 1, 0)
    /\ UNCHANGED <<sessionVars, nodeEnv, fmbDeployment, build, users,
                   projects, tasks,
                   sessions, usedSids, preLogin>>

\* PUT /api/tasks/:id: role test, then updateTask, 404 when no row.
PutTask(s, t, status) ==
    LET route == "PUT /api/tasks/:id" IN
    /\ Enter(s)
    /\ IF roleOf(callerOf(s)) \notin handlerAllows(route)
       THEN /\ resp' = Reply(route, s, 403, 0, t)
            /\ UNCHANGED tasks
       ELSE /\ tasks' = IF tasks[t] # NoTask
                        THEN [tasks EXCEPT ![t].status = status]
                        ELSE tasks
            /\ resp' = Reply(route, s,
                             IF tasks[t] = NoTask THEN 404 ELSE 200, 1, t)
    /\ UNCHANGED <<sessionVars, nodeEnv, fmbDeployment, build, users, projects,
                   sessions, usedSids, preLogin>>

\* DELETE /api/tasks/:id: deleteTask, 404 on a falsy result, else 204.
\* The handler does not test the caller's role.
DeleteTask(s, t) ==
    LET route == "DELETE /api/tasks/:id" IN
    /\ Enter(s)
    /\ tasks' = [tasks EXCEPT ![t] = NoTask]
    /\ resp' = Reply(route, s, IF deleteProjectResult THEN 204 ELSE 404, 1, t)
    /\ UNCHANGED <<sessionVars, nodeEnv, fmbDeployment, build, users, projects,
                   sessions, usedSids, preLogin>>

\* POST /api/users/change-role: validates the role, then calls
\* activeStorage.updateUserRole, which FmbStorage does not define.
ChangeRole(s, role) ==
    LET route == "POST /api/users/change-role" IN
    /\ Enter(s)
    /\ resp' = [(IF role \notin validRoles
                 THEN Reply(route, s, 400, 0, callerOf(s))
                 ELSE IF "updateUserRole" \notin FmbStorageMethods
                      THEN Reply(route, s, 500, 0, callerOf(s))
                      ELSE Reply(route, s, 200, 1, callerOf(s)))
               EXCEPT !.body = role]
    /\ UNCHANGED <<sessionVars, nodeEnv, fmbDeployment, build, users,
                   projects, tasks,
                   sessions, usedSids, preLogin>>

\* POST /api/admin/users/:userId/role.
AdminSetRole(s, target, role) ==
    LET route == "POST /api/admin/users/:userId/role" IN
    /\ Enter(s)
    /\ resp' = [(IF roleOf(callerOf(s)) \notin handlerAllows(route)
                 THEN Reply(route, s, 403, 0, target)
                 ELSE IF role = "" \/ role \notin validRoles
                 THEN Reply(route, s, 400, 0, target)
                 ELSE IF callerOf(s) = target /\ role # "admin"
                 THEN Reply(route, s, 400, 0, target)
                 ELSE IF "updateUserRole" \notin FmbStorageMethods
                 THEN Reply(route, s, 500, 0, target)
                 ELSE Reply(route, s, 200, 1, target))
               EXCEPT !.body = role]
    /\ UNCHANGED <<sessionVars, nodeEnv, fmbDeployment, build, users,
                   projects, tasks,
                   sessions, usedSids, preLogin>>

NextApi ==
    \/ \E s \in Sids, c \in AcsFailures : AcsFailA(s, c)
    \/ \E s \in Sids, c \in AcsFailures : AcsFailB(s, c)
    \/ \E f \in Sids : NewVisit(f)
    \/ \E s \in Sids, u \in UserIds, f \in Sids : AcsA(s, u, f)
    \/ \E s \in Sids, u \in UserIds, f \in Sids, regen \in BOOLEAN :
           AcsB(s, u, f, regen)
    \/ \E r \in Routes, s \in Sids : Unauthorized(r, s)
    \/ \E r \in Routes, s \in Sids : DevBypass(r, s)
    \/ \E s \in Sids, valid \in BOOLEAN : PostProject(s, valid)
    \/ \E r \in Routes, s \in Sids, p \in ProjectIds,
          st \in ProjectStatus \cup {"absent", "bogus"} :
           UpdateProject(r, s, p, st)
    \/ \E s \in Sids, p \in ProjectIds : DeleteProject(s, p)
    \/ \E s \in Sids, valid \in BOOLEAN : PostTask(s, valid)
    \/ \E s \in Sids, t \in TaskIds, st \in TaskStatus : PutTask(s, t, st)
    \/ \E s \in Sids, t \in TaskIds : DeleteTask(s, t)
    \/ \E s \in Sids, r \in BodyRoles : ChangeRole(s, r)
    \/ \E s \in Sids, u \in UserIds, r \in BodyRoles : AdminSetRole(s, u, r)

SpecApi == InitApi /\ [][NextApi]_vars

\* ------------------------------------------------------------------------
\* Session store operations, the clock, outages and the cleanup pass
\* ------------------------------------------------------------------------
InitStore ==
    /\ ApiIdle
    /\ sessionStore \in {"mssql", "memory"}
    /\ storePool \in {"connected", "null"}
    /\ sessionStore = "memory" => storePool = "null"
    /\ rows \in [Sids -> {NoSessRow, SessRow(sessionTtl)}]
    /\ now = 0
    /\ mgrVersion \in {"v1", "v2"}
    /\ mgrPool \in {"connected", "null"}
    /\ lastOp = NoOp
    /\ PoolIdle
    /\ ReqIdle
    /\ DataIdle
    /\ ExtIdle

StoreFrame == UNCHANGED <<apiVars, poolVars, reqVars, dataVars, extVars,
                          storePool, now, mgrVersion, mgrPool, sessionStore>>

\* Every operation answers 'Database not available' when the pool is null
\* and hands a thrown query error to its callback otherwise.
StoreGet(s) ==
    /\ sessionStore = "mssql"
    /\ LET g == Get(storePool, rows, s, now)
       IN lastOp' = [NoOp EXCEPT !.op = "get", !.sid = s, !.err = g.err,
                                 !.result = g.result]
    /\ UNCHANGED rows
    /\ StoreFrame

StoreSet(s, e) ==
    /\ sessionStore = "mssql"
    /\ LET failed == storePool = "null"
                     \/ queryFails(storePool, {"sid", "session", "expires"})
       IN /\ rows' = IF failed THEN rows ELSE Set(rows, s, e)
          /\ lastOp' = [NoOp EXCEPT !.op = "set", !.sid = s, !.err = failed,
                                    !.expires = e]
    /\ StoreFrame

StoreDestroy(s) ==
    /\ sessionStore = "mssql"
    /\ LET failed == storePool = "null" \/ queryFails(storePool, {"sid"})
       IN /\ rows' = IF failed THEN rows ELSE Destroy(rows, s)
          /\ lastOp' = [NoOp EXCEPT !.op = "destroy", !.sid = s,
                                    !.err = failed]
    /\ StoreFrame

StoreTouch(s, e) ==
    /\ sessionStore = "mssql"
    /\ LET failed == storePool = "null"
                     \/ queryFails(storePool, {"sid", "expires"})
       IN /\ rows' = IF failed THEN rows ELSE Touch(rows, s, e)
          /\ lastOp' = [NoOp EXCEPT !.op = "touch", !.sid = s, !.err = failed,
                                    !.expires = e]
    /\ StoreFrame

StoreLength ==
    /\ sessionStore = "mssql"
    /\ LET failed == storePool = "null" \/ queryFails(storePool, {"expires"})
       IN lastOp' = [NoOp EXCEPT !.op = "length", !.err = failed,
                        !.count = IF failed THEN 0 ELSE Length(rows, now)]
    /\ UNCHANGED rows
    /\ StoreFrame

StoreClear ==
    /\ sessionStore = "mssql"
    /\ LET failed == storePool = "null" \/ queryFails(storePool, {})
       IN /\ rows' = IF failed THEN rows ELSE Clear(rows)
          /\ lastOp' = [NoOp EXCEPT !.op = "clear", !.err = failed]
    /\ StoreFrame

\* One run of the manager's cleanupExpiredSessions; count is its return.
CleanupPass ==
    /\ rows' = cleanupExpiredSessions(mgrPool, rows, now)
    /\ lastOp' = [NoOp EXCEPT !.op = "cleanup",
                     !.count = Cardinality({s \in Sids : rows[s].present})
                               - Cardinality({s \in Sids : rows'[s].present})]
    /\ StoreFrame

\* A request for a protected route that carries the cookie of session s,
\* through the middleware stack of createServer: the session middleware
\* loads the session with store.get; a store error goes to next(err), and
\* with no error-handling middleware installed the framework answers 500.
\* A null session becomes a new empty session, which isAuthenticated
\* answers with 401.  A loaded session is saved back with a renewed expiry
\* (resave, rolling).
HttpRequest(s) ==
    /\ LET g == Get(storePool, rows, s, now)
           status ==
               IF sessionAvailabilityMounted /\ mgrPool # "connected" THEN 503
               ELSE IF sessionStore = "memory" THEN 401
               ELSE IF g.err THEN 500
               ELSE IF g.result = "null" THEN 401
               ELSE 200
       IN /\ lastOp' = [NoOp EXCEPT !.op = "http", !.sid = s,
                           !.err = (sessionStore = "mssql" /\ g.err),
                           !.result = IF status = 401 THEN "empty"
                                      ELSE IF status = 200 THEN "session"
                                      ELSE "none",
                           !.status = status]
          /\ rows' = IF status = 200 THEN Set(rows, s, now + sessionTtl)
                     ELSE rows
    /\ StoreFrame

Tick ==
    /\ now < MaxTime
    /\ now' = now + 1
    /\ lastOp' = NoOp
    /\ UNCHANGED <<apiVars, poolVars, reqVars, dataVars, extVars, storePool,
                   rows, mgrVersion, mgrPool, sessionStore>>

\* The database becomes unreachable: queries on the store's pool throw.
ConnectionLost ==
    /\ storePool = "connected"
    /\ storePool' = "closed"
    /\ lastOp' = NoOp
    /\ UNCHANGED <<apiVars, poolVars, reqVars, dataVars, extVars, rows, now,
                   mgrVersion, mgrPool, sessionStore>>

ConnectionRestored ==
    /\ storePool = "closed"
    /\ storePool' = "connected"
    /\ lastOp' = NoOp
    /\ UNCHANGED <<apiVars, poolVars, reqVars, dataVars, extVars, rows, now,
                   mgrVersion, mgrPool, sessionStore>>

NextStore ==
    \/ \E s \in Sids : StoreGet(s)
    \/ \E s \in Sids, e \in Expiries : StoreSet(s, e)
    \/ \E s \in Sids : StoreDestroy(s)
    \/ \E s \in Sids, e \in Expiries : StoreTouch(s, e)
    \/ StoreLength
    \/ StoreClear
    \/ CleanupPass
    \/ \E s \in Sids : HttpRequest(s)
    \/ Tick
    \/ ConnectionLost
    \/ ConnectionRestored

SpecStore == InitStore /\ [][NextStore]_vars

\* ------------------------------------------------------------------------
\* OptimizedSessionManager: the session pool and its reconnection
\* ------------------------------------------------------------------------
maxReconnectAttempts == 5

reconnectDelay == 2000

RECURSIVE Pow2(_)
\* Math.pow(2, k) for k >= 0.
Pow2(k) == IF k = 0 THEN 1 ELSE 2 * Pow2(k - 1)

\* The manager's fields and the bookkeeping of one call, as a record.
MgrState ==
    [pool |-> mgrPool, n |-> reconnectAttempts, timers |-> timers,
     sched |-> lastSched, since |-> attemptsSince,
     scheduled |-> scheduledSince, event |-> lastEvent]

\* A manager whose ceiling test never holds.
ceilingReached_Never(n) == FALSE

\* if (this.reconnectAttempts >= this.maxReconnectAttempts) return;
ceilingReached(n) == n >= maxReconnectAttempts

\* handleConnectionError: give up at the ceiling, else count the attempt
\* and set a timer that calls initializeSessionPool after the delay.
handleConnectionError(st) ==
    IF ceilingReached(st.n) THEN [st EXCEPT !.event = "gaveup"]
    ELSE [st EXCEPT !.n = @ + 1,
                    !.timers = @ + 1,
                    !.sched = [n |-> st.n + 1,
                               delay |-> reconnectDelay * Pow2(st.n)],
                    !.scheduled = @ + 1,
                    !.event = "scheduled"]

\* initializeSessionPool: return the pool when it is connected; otherwise
\* create a pool and connect.  Success resets the counter; failure leaves
\* the new, unconnected pool in place and runs handleConnectionError.  An
\* attempt counts as a reconnection when a pool had been created before.
initializeSessionPool(st, up) ==
    IF st.pool = "connected" THEN [st EXCEPT !.event = "early"]
    ELSE IF up
    THEN [st EXCEPT !.pool = "connected", !.n = 0, !.since = 0,
                    !.scheduled = 0, !.event = "connected"]
    ELSE handleConnectionError(
             [st EXCEPT !.pool = "closed",
                        !.since = IF st.pool = "null" THEN @
                                  ELSE IF @ < MaxTracked THEN @ + 1 ELSE @])

\* The manager's fields take the values of st.
Becomes(st) ==
    /\ st.timers <= MaxTimers
    /\ st.n <= MaxTracked
    /\ mgrPool' = st.pool
    /\ reconnectAttempts' = st.n
    /\ timers' = st.timers
    /\ lastSched' = st.sched
    /\ attemptsSince' = st.since
    /\ scheduledSince' = st.scheduled
    /\ lastEvent' = st.event

MgrFrame == UNCHANGED <<apiVars, reqVars, dataVars, extVars, storePool, rows,
                        now, mgrVersion, sessionStore, lastOp>>

InitMgr ==
    /\ ApiIdle
    /\ StoreIdle
    /\ PoolIdle
    /\ ReqIdle
    /\ DataIdle
    /\ ExtIdle

\* A reconnect timer runs its callback.
TimerFires ==
    /\ timers > 0
    /\ Becomes(initializeSessionPool([MgrState EXCEPT !.timers = @ - 1], dbUp))
    /\ UNCHANGED dbUp
    /\ MgrFrame

\* performHealthCheck: with the pool missing or unconnected it calls
\* initializeSessionPool, and when that throws its catch block calls it
\* once more.
HealthCheck ==
    /\ mgrPool # "connected"
    /\ LET first == initializeSessionPool(MgrState, dbUp)
       IN Becomes(IF first.pool = "connected" THEN first
                  ELSE initializeSessionPool(first, dbUp))
    /\ UNCHANGED dbUp
    /\ MgrFrame

\* validateAndRepairSessionStore, validateDeployment: one direct call.
DirectInitialize ==
    /\ Becomes(initializeSessionPool(MgrState, dbUp))
    /\ UNCHANGED dbUp
    /\ MgrFrame

\* The pool emits 'error'; its listener runs handleConnectionError.
PoolError(lost) ==
    /\ mgrPool # "null"
    /\ Becomes(handleConnectionError(
                   [MgrState EXCEPT !.pool = IF lost THEN "closed" ELSE @]))
    /\ UNCHANGED dbUp
    /\ MgrFrame

DbFails ==
    /\ dbUp
    /\ dbUp' = FALSE
    /\ Becomes([MgrState EXCEPT
                   !.pool = IF @ = "connected" THEN "closed" ELSE @,
                   !.event = "lost"])
    /\ MgrFrame

DbRecovers ==
    /\ ~dbUp
    /\ dbUp' = TRUE
    /\ UNCHANGED <<mgrPool, reconnectAttempts, timers, lastSched,
                   attemptsSince, scheduledSince, lastEvent>>
    /\ MgrFrame

NextMgr ==
    \/ TimerFires
    \/ HealthCheck
    \/ DirectInitialize
    \/ \E lost \in BOOLEAN : PoolError(lost)
    \/ DbFails
    \/ DbRecovers

SpecMgr == InitMgr /\ [][NextMgr]_vars

\* ------------------------------------------------------------------------
\* Concurrent requests of one browser on the session store, and logout
\* ------------------------------------------------------------------------
\* getSession configures resave: true -- a loaded session is written back
\* with store.set at the end of every request, modified or not.
resave == TRUE

InitReq ==
    /\ ApiIdle
    /\ StoreIdle
    /\ PoolIdle
    /\ stored \in [Sids -> {NoPayload, [user |-> 1, v |-> 1]}]
    /\ stored[1] # NoPayload
    /\ reqs = [r \in ReqIds |-> IdleReq]
    /\ loggedOut = {}
    /\ lastReq = NoReq
    /\ DataIdle
    /\ ExtIdle

ReqFrame == UNCHANGED <<apiVars, storeVars, poolVars, dataVars, extVars>>

\* A request with the cookie of session s arrives and the session
\* middleware loads the session.  With no row it continues with a new,
\* empty session under another id: 401 on a protected route, and the
\* redirect for a logout.
Arrive(r, s, logout) ==
    /\ reqs[r].pc = "idle"
    /\ IF stored[s] = NoPayload
       THEN /\ lastReq' = [NoReq EXCEPT
                              !.kind = IF logout THEN "logout" ELSE "page",
                              !.sid = s,
                              !.status = IF logout THEN 302 ELSE 401,
                              !.afterLogout = (s \in loggedOut)]
            /\ UNCHANGED reqs
       ELSE /\ reqs' = [reqs EXCEPT ![r] =
                           [IdleReq EXCEPT !.pc = "handling", !.sid = s,
                                           !.sess = stored[s],
                                           !.afterLogout = (s \in loggedOut)]]
            /\ UNCHANGED lastReq
    /\ UNCHANGED <<stored, loggedOut>>
    /\ ReqFrame

\* The handler writes to req.session.
Modify(r, v) ==
    /\ reqs[r].pc = "handling"
    /\ reqs[r].sess.v # v
    /\ reqs' = [reqs EXCEPT ![r].sess.v = v]
    /\ UNCHANGED <<stored, loggedOut, lastReq>>
    /\ ReqFrame

\* The handler ends the response; the middleware saves the session first.
\* CustomMSSQLStore.set begins: IF EXISTS (SELECT 1 ... WHERE sid = @sid)
\* picks the UPDATE or the INSERT branch.
BeginSet(r) ==
    /\ reqs[r].pc = "handling"
    /\ resave
    /\ reqs' = [reqs EXCEPT
                  ![r].pc = "checked",
                  ![r].branch = IF stored[reqs[r].sid] # NoPayload
                                THEN "update" ELSE "insert"]
    /\ UNCHANGED <<stored, loggedOut, lastReq>>
    /\ ReqFrame

\* The chosen branch runs.  UPDATE changes the row if it is still there;
\* INSERT fails on the primary key of sid if a row has appeared meanwhile,
\* and set hands that error to its callback.  Then the response is sent.
ApplySet(r) ==
    /\ reqs[r].pc = "checked"
    /\ LET s == reqs[r].sid
           present == stored[s] # NoPayload
           failed == reqs[r].branch = "insert" /\ present
           written == IF reqs[r].branch = "update" THEN present ELSE ~present
       IN /\ stored' = IF written THEN [stored EXCEPT ![s] = reqs[r].sess]
                       ELSE stored
          /\ lastReq' = [NoReq EXCEPT
                            !.kind = "page", !.sid = s,
                            !.status = IF reqs[r].sess.user # 0 THEN 200
                                       ELSE 401,
                            !.err = failed,
                            !.payload = reqs[r].sess,
                            !.afterLogout = reqs[r].afterLogout]
    /\ reqs' = [reqs EXCEPT ![r] = IdleReq]
    /\ UNCHANGED loggedOut
    /\ ReqFrame

\* The logout handler: req.logout, then req.session.destroy, whose
\* callback redirects.  With req.session gone nothing is saved afterwards.
Logout(r) ==
    /\ reqs[r].pc = "handling"
    /\ stored' = [stored EXCEPT ![reqs[r].sid] = NoPayload]
    /\ loggedOut' = loggedOut \cup {reqs[r].sid}
    /\ lastReq' = [NoReq EXCEPT !.kind = "logout", !.sid = reqs[r].sid,
                                !.status = 302,
                                !.afterLogout = reqs[r].afterLogout]
    /\ reqs' = [reqs EXCEPT ![r] = IdleReq]
    /\ ReqFrame

NextReq ==
    \/ \E r \in ReqIds, s \in Sids, logout \in BOOLEAN : Arrive(r, s, logout)
    \/ \E r \in ReqIds, v \in 1..MaxVersions : Modify(r, v)
    \/ \E r \in ReqIds : BeginSet(r)
    \/ \E r \in ReqIds : ApplySet(r)
    \/ \E r \in ReqIds : Logout(r)

SpecReq == InitReq /\ [][NextReq]_vars

\* ------------------------------------------------------------------------
\* Project handlers over the columns of the projects table, for a caller
\* the middleware and the handler's role test have let through
\* ------------------------------------------------------------------------
\* Object.entries(projectData) filtered by value !== undefined.
keysOf(body) ==
    {k \in ProjectFields :
        IF k = "status" THEN body.status # "absent" ELSE body[k] # Undefined}

\* CHK_projects_dates: a CHECK rejects a row only when its condition is
\* false, so a NULL on either side lets the row through.
CHK_projects_dates(row) ==
    \/ row.endDate = Null
    \/ row.startDate = Null
    \/ row.endDate >= row.startDate

\* Rows the projects table can hold.
ProjectRowValues ==
    {r \in [status : ProjectStatus, startDate : Dates \cup {Null},
            endDate : Dates \cup {Null}, isTemplate : {0, 1}] :
        CHK_projects_dates(r)}

\* insertProjectSchema.partial().parse(req.body): every key is optional,
\* an absent key stays undefined (its default is not applied), and a value
\* outside the status enumeration is a ZodError.
parsePartial_WithDefaults(body) ==
    [err |-> body.status = "bogus",
     data |-> [body EXCEPT
                 !.status = IF @ = "absent" THEN "active" ELSE @,
                 !.isTemplate = IF @ = Undefined THEN 0 ELSE @]]

parsePartial(body) ==
    [err |-> body.status = "bogus", data |-> body]

\* insertProjectSchema.parse({...req.body, userId}): defaults are applied,
\* and userId, which is no key of the schema, is stripped.
parseInsert(body) ==
    [err |-> body.status = "bogus",
     data |-> [body EXCEPT
                 !.status = IF @ = "absent" THEN "active" ELSE @,
                 !.isTemplate = IF @ = Undefined THEN 0 ELSE @],
     userId |-> Undefined]

\* A parameter bound to undefined reaches the database as NULL.
toColumn(v) == IF v = Undefined THEN Null ELSE v

\* FmbStorage.updateProject: one assignment per key whose value is not
\* undefined, plus updated_at, in one UPDATE ... WHERE id; no statement at
\* all for an empty payload.  The statement fails when the new row breaks
\* CHK_projects_dates.
updateProject(prs, p, data) ==
    LET set == keysOf(data)
        old == prs[p]
        new == [status |-> IF "status" \in set THEN data.status
                                                ELSE old.status,
                startDate |-> IF "startDate" \in set THEN data.startDate
                                                      ELSE old.startDate,
                endDate |-> IF "endDate" \in set THEN data.endDate
                                                  ELSE old.endDate,
                isTemplate |-> IF "isTemplate" \in set THEN data.isTemplate
                                                        ELSE old.isTemplate]
    IN IF set = {} \/ old = NoProjectRow
       THEN [err |-> FALSE, rows |-> prs, setsUpdatedAt |-> FALSE]
       ELSE IF ~CHK_projects_dates(new)
       THEN [err |-> TRUE, rows |-> prs, setsUpdatedAt |-> FALSE]
       ELSE [err |-> FALSE, rows |-> [prs EXCEPT ![p] = new],
             setsUpdatedAt |-> TRUE]

\* FmbStorage.createProject: fmb-storage.ts reads the snake_case keys of
\* its argument, which the parsed body does not have; the other FmbStorage
\* reads the camelCase keys.  Both read a user id the parsed body lost, so
\* the INSERT carries NULL for user_id NOT NULL.
createProject(prs, parsed) ==
    LET data == parsed.data
        row == [status |-> data.status,
                startDate |-> IF build = "A" THEN Null
                              ELSE toColumn(data.startDate),
                endDate |-> IF build = "A" THEN Null
                            ELSE toColumn(data.endDate),
                isTemplate |-> IF build = "A" THEN 0 ELSE data.isTemplate]
        user_id == toColumn(parsed.userId)
        free == {p \in ProjectIds : prs[p] = NoProjectRow}
    IN IF user_id = Null \/ ~CHK_projects_dates(row) \/ free = {}
       THEN [err |-> TRUE, rows |-> prs]
       ELSE [err |-> FALSE,
             rows |-> [prs EXCEPT ![CHOOSE p \in free : TRUE] = row]]

InitProject ==
    /\ build \in {"A", "B"}
    /\ ApiQuiet
    /\ StoreIdle
    /\ PoolIdle
    /\ ReqIdle
    /\ ExtIdle
    /\ projectRows \in [ProjectIds -> ProjectRowValues \cup {NoProjectRow}]
    /\ taskRows = [t \in TaskIds |-> 0]
    /\ projectEmployees = {}
    /\ timeEntries = [e \in EntryIds |-> NoEntry]
    /\ lastCall = NoCall

DataFrame == UNCHANGED <<apiVars, storeVars, poolVars, reqVars, extVars>>

\* PATCH /api/projects/:id: 400 on a ZodError, 500 when the storage call
\* throws, 404 when no row comes back, else 200 with the row.
PatchProject(p, body) ==
    LET parsed == parsePartial(body)
        u == updateProject(projectRows, p, parsed.data)
    IN /\ projectRows' = IF parsed.err THEN projectRows ELSE u.rows
       /\ lastCall' = [NoCall EXCEPT
             !.route = "PATCH /api/projects/:id",
             !.id = p,
             !.keys = keysOf(body),
             !.setsUpdatedAt = (~parsed.err /\ u.setsUpdatedAt),
             !.status = IF parsed.err THEN 400
                        ELSE IF u.err THEN 500
                        ELSE IF u.rows[p] = NoProjectRow THEN 404
                        ELSE 200]
       /\ UNCHANGED <<taskRows, projectEmployees, timeEntries>>
       /\ DataFrame

\* Whether a body gives a date range that ends before it starts.
endsBeforeStart(body) ==
    /\ body.startDate # Undefined
    /\ body.endDate # Undefined
    /\ body.endDate < body.startDate

\* POST /api/projects past its role test: 400 on a ZodError, 500 when
\* createProject throws, else 201.
CreateProject(body) ==
    LET parsed == parseInsert(body)
        c == createProject(projectRows, parsed)
    IN /\ projectRows' = IF parsed.err THEN projectRows ELSE c.rows
       /\ lastCall' = [NoCall EXCEPT
             !.route = "POST /api/projects",
             !.endsBeforeStart = endsBeforeStart(body),
             !.status = IF parsed.err THEN 400
                        ELSE IF c.err THEN 500
                        ELSE 201]
       /\ UNCHANGED <<taskRows, projectEmployees, timeEntries>>
       /\ DataFrame

\* Bodies with at most one key, and every date range without other keys.
PatchBodies == {b \in Bodies : Cardinality(keysOf(b)) <= 1}

PostBodies ==
    {b \in Bodies :
        b.isTemplate = Undefined /\ b.status \in {"absent", "bogus"}}

NextProject ==
    \/ \E p \in ProjectIds, b \in PatchBodies : PatchProject(p, b)
    \/ \E b \in PostBodies : CreateProject(b)

SpecProject == InitProject /\ [][NextProject]_vars

\* ------------------------------------------------------------------------
\* Deleting a project that tasks, assignments and time entries refer to
\* ------------------------------------------------------------------------
\* A project row with the column defaults of the projects table.
DefaultProjectRow == [status |-> "active", startDate |-> Null,
                      endDate |-> Null, isTemplate |-> 0]

\* Tasks FK_tasks_project (ON DELETE CASCADE) removes with project p.
tasksOf(p) == {t \in TaskIds : taskRows[t] = p}

\* FK_timeentry_project and FK_timeentry_task are ON DELETE NO ACTION: the
\* DELETE is rejected while a time entry refers to the project or to a task
\* the cascade would remove.
blocksDelete(p) ==
    \E e \in EntryIds :
        /\ timeEntries[e].present
        /\ \/ timeEntries[e].project = p
           \/ timeEntries[e].task \in tasksOf(p)

InitDelete ==
    /\ build \in {"A", "B"}
    /\ ApiQuiet
    /\ StoreIdle
    /\ PoolIdle
    /\ ReqIdle
    /\ ExtIdle
    /\ projectRows \in [ProjectIds -> {NoProjectRow, DefaultProjectRow}]
    /\ taskRows \in [TaskIds -> ProjectIds \cup {0}]
    /\ \A t \in TaskIds :
          taskRows[t] # 0 => projectRows[taskRows[t]] # NoProjectRow
    /\ projectEmployees \in SUBSET ProjectIds
    /\ \A p \in projectEmployees : projectRows[p] # NoProjectRow
    /\ timeEntries \in [EntryIds ->
          {NoEntry} \cup {Entry(p, t) : p \in ProjectIds \cup {Null},
                                        t \in TaskIds \cup {Null}}]
    /\ \A e \in EntryIds :
          /\ timeEntries[e].project # Null
                => projectRows[timeEntries[e].project] # NoProjectRow
          /\ timeEntries[e].task # Null => taskRows[timeEntries[e].task] # 0
    /\ lastCall = NoCall

\* DELETE /api/projects/:id: DELETE FROM projects WHERE id = @id, with the
\* cascades and rejections of the foreign keys; 500 when the statement
\* throws, 404 when deleteProject returned a falsy value, else 204.
DeleteProjectRow(p) ==
    LET rejected == projectRows[p] # NoProjectRow /\ blocksDelete(p)
    IN /\ IF rejected
          THEN UNCHANGED <<projectRows, taskRows, projectEmployees>>
          ELSE /\ projectRows' = [projectRows EXCEPT ![p] = NoProjectRow]
               /\ taskRows' = [t \in TaskIds |->
                                 IF t \in tasksOf(p) THEN 0 ELSE taskRows[t]]
               /\ projectEmployees' = projectEmployees \ {p}
       /\ lastCall' = [NoCall EXCEPT
             !.route = "DELETE /api/projects/:id",
             !.id = p,
             !.status = IF rejected THEN 500
                        ELSE IF deleteProjectResult THEN 204
                        ELSE 404]
       /\ UNCHANGED timeEntries
       /\ DataFrame

\* GET /api/projects/:id calls activeStorage.getProject, which neither
\* FmbStorage defines: the call throws and the catch block answers 500.
GetProject(p) ==
    /\ lastCall' = [NoCall EXCEPT
          !.route = "GET /api/projects/:id",
          !.id = p,
          !.status = IF "getProject" \notin FmbStorageMethods THEN 500
                     ELSE IF projectRows[p] = NoProjectRow THEN 404
                     ELSE 200]
    /\ UNCHANGED <<projectRows, taskRows, projectEmployees, timeEntries>>
    /\ DataFrame

\* DELETE /api/tasks/:id: DELETE FROM tasks WHERE id = @id, rejected by
\* FK_timeentry_task while a time entry refers to the task.
DeleteTaskRow(t) ==
    LET rejected ==
            /\ taskRows[t] # 0
            /\ \E e \in EntryIds :
                  timeEntries[e].present /\ timeEntries[e].task = t
    IN /\ taskRows' = IF rejected THEN taskRows
                      ELSE [taskRows EXCEPT ![t] = 0]
       /\ lastCall' = [NoCall EXCEPT
             !.route = "DELETE /api/tasks/:id",
             !.id = t,
             !.status = IF rejected THEN 500
                        ELSE IF deleteProjectResult THEN 204
                        ELSE 404]
       /\ UNCHANGED <<projectRows, projectEmployees, timeEntries>>
       /\ DataFrame

NextDelete ==
    \/ \E p \in ProjectIds : DeleteProjectRow(p)
    \/ \E t \in TaskIds : DeleteTaskRow(t)
    \/ \E p \in ProjectIds : GetProject(p)

SpecDelete == InitDelete /\ [][NextDelete]_vars

\* ------------------------------------------------------------------------
\* Creating a time entry
\* ------------------------------------------------------------------------
\* hours: z.number().min(0).max(24), and CHK_timeentry_hours.
minHours == 0

maxHours == 24

\* Hours a request can ask for: the allowed range and one value past each
\* end of it.
Hours == (minHours - 1)..(maxHours + 1)

\* Durations a request can carry, or none.
Durations == {Undefined, 0, 1, maxHours}

EntryBodies == [hours : Hours, duration : Durations,
                projectId : ProjectIds \cup {Undefined},
                taskId : TaskIds \cup {Undefined}]

\* The handler's manual-duration branch: with a truthy duration and no
\* times in the body it sets startTime "09:00" and an endTime whose hour is
\* 9 + floor(duration).  Times are kept as their hour; Null for none.
dummyEndHour(body) ==
    IF body.duration # Undefined /\ body.duration # 0
    THEN 9 + body.duration
    ELSE Null

\* insertTimeEntrySchema.parse: hours within [0, 24] and a duration that is
\* a number >= 0; the user id and the date are taken to be present.
parseTimeEntry(body) ==
    \/ body.hours < minHours
    \/ body.hours > maxHours
    \/ body.duration = Undefined

\* A string such as "33:00" does not convert to DATETIME2.
convertsToTime(h) == h = Null \/ h <= 23

\* FmbStorage.createTimeEntry.  fmb-storage.ts reads user_id, project_id,
\* task_id, start_time and end_time from an object whose keys are userId,
\* projectId, taskId, startTime and endTime, so all of them reach the
\* INSERT as NULL; the other FmbStorage reads the camelCase keys.  The
\* INSERT fails on user_id NOT NULL, on a time that does not convert, and
\* on a project or task reference without a row.
createTimeEntry(body, caller) ==
    LET user_id == IF build = "A" THEN Null ELSE caller
        project_id == IF build = "A" THEN Null ELSE toColumn(body.projectId)
        task_id == IF build = "A" THEN Null ELSE toColumn(body.taskId)
        end_time == IF build = "A" THEN Null ELSE dummyEndHour(body)
        ok == /\ user_id # Null
              /\ convertsToTime(end_time)
              /\ project_id # Null => projectRows[project_id] # NoProjectRow
              /\ task_id # Null => taskRows[task_id] # 0
              /\ body.hours >= minHours /\ body.hours <= maxHours
    IN [err |-> ~ok, row |-> Entry(project_id, task_id)]

\* What makes a create request one the contract accepts apart from its
\* hours: a duration is given and the project and task it names exist.
wellFormed(body) ==
    /\ body.duration # Undefined
    /\ body.projectId # Undefined => projectRows[body.projectId] # NoProjectRow
    /\ body.taskId # Undefined => taskRows[body.taskId] # 0

InitEntry ==
    /\ build \in {"A", "B"}
    /\ ApiQuiet
    /\ StoreIdle
    /\ PoolIdle
    /\ ReqIdle
    /\ ExtIdle
    /\ projectRows \in [ProjectIds -> {NoProjectRow, DefaultProjectRow}]
    /\ taskRows \in [TaskIds -> ProjectIds \cup {0}]
    /\ \A t \in TaskIds :
          taskRows[t] # 0 => projectRows[taskRows[t]] # NoProjectRow
    /\ projectEmployees = {}
    /\ timeEntries = [e \in EntryIds |-> NoEntry]
    /\ lastCall = NoCall

\* POST /api/time-entries for caller 1: 400 on a ZodError, 500 when
\* createTimeEntry throws, else 201 with the new row.
CreateTimeEntry(body) ==
    LET rejected == parseTimeEntry(body)
        c == createTimeEntry(body, 1)
        free == {e \in EntryIds : ~timeEntries[e].present}
        inserts == ~rejected /\ ~c.err
    IN /\ inserts => free # {}
       /\ timeEntries' =
             IF inserts
             THEN [timeEntries EXCEPT ![CHOOSE e \in free : TRUE] = c.row]
             ELSE timeEntries
       /\ lastCall' = [NoCall EXCEPT
             !.route = "POST /api/time-entries",
             !.hours = body.hours,
             !.wellFormed = wellFormed(body),
             !.status = IF rejected THEN 400
                        ELSE IF c.err THEN 500
                        ELSE 201]
       /\ UNCHANGED <<projectRows, taskRows, projectEmployees>>
       /\ DataFrame

NextEntry ==
    \/ \E b \in EntryBodies : CreateTimeEntry(b)
    \/ \E t \in TaskIds : DeleteTaskRow(t)

SpecEntry == InitEntry /\ [][NextEntry]_vars

\* ------------------------------------------------------------------------
\* Startup: createServer, the health routes and the fallback storage
\* ------------------------------------------------------------------------
NodeEnvs == {"development", "production", "test"}

\* Absent, one character short, and long enough.
SecretLens == {0, minSecretLen - 1, minSecretLen}

Cfgs == [db : BOOLEAN, saml : BOOLEAN, secretLen : SecretLens,
         reachable : BOOLEAN]

\* fmb-env of the first module pair answers true always; the second reads the
\* environment.
onPremEnvironment == build = "A" \/ isFmbOnPremEnvironment

\* The test initializeDatabase, checkDatabaseHealth, getSession, getStorage of
\* the routes and the authentication setup each write out for themselves.
onPremProduction == onPremEnvironment /\ nodeEnv = "production"

\* extractUserId reads the SAML user shape whenever fmb-env says on-prem.
extractUserIdIsFmb == onPremEnvironment

\* The second fmb-env throws outside development when a required variable is
\* absent; the first reads the variables without looking at them.
loadFmbOnPremConfigThrows ==
    /\ build = "B"
    /\ nodeEnv # "development"
    /\ ~(cfg.db /\ cfg.saml /\ cfg.secretLen > 0)

\* db.ts initializeDatabase with initializeFmbDatabase: the storage the
\* process selects at startup and the FmbStorage instance left behind.
initializeDatabase ==
    IF nodeEnv = "development"
    THEN [storage |-> "fallback", instance |-> "null"]
    ELSE IF onPremProduction
    THEN IF loadFmbOnPremConfigThrows
         THEN [storage |-> "fallback", instance |-> "null"]
         ELSE IF cfg.db /\ cfg.reachable
              THEN [storage |-> "mssql", instance |-> "connected"]
              ELSE [storage |-> "fallback", instance |-> "unconnected"]
    ELSE [storage |-> "fallback", instance |-> "null"]

\* getSession: no secret throws, a short one only warns, and a failure to set
\* up the MS SQL store leaves the memory store.
getSessionThrows == cfg.secretLen = 0

getSession ==
    IF onPremProduction /\ ~loadFmbOnPremConfigThrows THEN "mssql" ELSE "memory"

\* getStorage of the routes: the FmbStorage of fmb-database or the storage
\* module, decided again on every call.
getStorage == IF onPremProduction THEN "relational" ELSE "module"

InitBoot ==
    /\ nodeEnv \in NodeEnvs
    /\ fmbDeployment \in {"onprem", "unset"}
    /\ build \in {"A", "B"}
    /\ users = [u \in UserIds |-> NoRow]
    /\ projects = [p \in ProjectIds |-> NoRow]
    /\ tasks = [t \in TaskIds |-> NoTask]
    /\ sessions = [s \in Sids |-> NoSession]
    /\ usedSids = {}
    /\ preLogin = {}
    /\ resp = NoResp
    /\ StoreIdle
    /\ PoolIdle
    /\ ReqIdle
    /\ DataIdle
    /\ cfg \in Cfgs
    /\ boot = NoBoot
    /\ lastProbe = NoProbe
    /\ QueryIdle
    /\ CleanIdle
    /\ InitIdle
    /\ RoleIdle

BootFrame ==
    UNCHANGED <<apiVars, storeVars, poolVars, reqVars, dataVars, queryVars,
                cleanVars, initVars, roleVars>>

\* createServer: initializeDatabase inside a try that swallows its error,
\* session middleware, route registration with the authentication setup, and
\* listen. libraryAccepts is what the SAML strategy constructor of the first
\* pair does with the empty endpoint it is given when the value is absent.
CreateServer(libraryAccepts) ==
    /\ boot.phase = "starting"
    /\ (build = "A" /\ onPremProduction /\ ~cfg.saml) \/ libraryAccepts
    /\ boot' =
         IF getSessionThrows
         THEN [phase |-> "failed", storage |-> initializeDatabase.storage,
               instance |-> initializeDatabase.instance, store |-> "none",
               auth |-> "none", error |-> "session secret is required"]
         ELSE IF onPremProduction /\ loadFmbOnPremConfigThrows
         THEN [phase |-> "failed", storage |-> initializeDatabase.storage,
               instance |-> initializeDatabase.instance, store |-> getSession,
               auth |-> "none", error |-> "missing required variables"]
         ELSE IF ~libraryAccepts
         THEN [phase |-> "failed", storage |-> initializeDatabase.storage,
               instance |-> initializeDatabase.instance, store |-> getSession,
               auth |-> "none", error |-> "strategy rejected"]
         ELSE [phase |-> "serving", storage |-> initializeDatabase.storage,
               instance |-> initializeDatabase.instance, store |-> getSession,
               auth |-> IF onPremProduction THEN "saml" ELSE "replit",
               error |-> "none"]
    /\ lastProbe' = NoProbe
    /\ UNCHANGED cfg
    /\ BootFrame

\* The database server goes away or comes back while the process serves.
DatabaseChanges ==
    /\ boot.phase = "serving"
    /\ cfg' = [cfg EXCEPT !.reachable = ~cfg.reachable]
    /\ lastProbe' = NoProbe
    /\ UNCHANGED boot
    /\ BootFrame

\* checkFmbDatabaseHealth: SELECT 1 on the instance of fmb-database; nothing
\* connects an instance whose connect failed at startup.
checkFmbDatabaseHealth == boot.instance = "connected" /\ cfg.reachable

checkDatabaseHealth == IF onPremProduction THEN checkFmbDatabaseHealth ELSE TRUE

HealthRoutes == {"GET /health", "GET /api/health"}

\* GET /health of index.ts reports the database; GET /api/health of the routes
\* answers 'healthy' without looking.
healthStatus(route) ==
    IF route = "GET /api/health" THEN 200
    ELSE IF nodeEnv = "development" \/ checkDatabaseHealth THEN 200 ELSE 503

GetHealth(route) ==
    /\ boot.phase = "serving"
    /\ lastProbe' = [op |-> route, object |-> "none",
                     status |-> healthStatus(route), result |-> "none"]
    /\ UNCHANGED <<cfg, boot>>
    /\ BootFrame

\* The two objects that stand in for storage when there is no database: the
\* one createFallbackStorage of db.ts builds and the StorageImplementation of
\* the storage module.
StorageObjects == {"createFallbackStorage", "StorageImplementation"}

ListMethods == {"getUsers", "getProjects", "getEmployees"}

ReadMethods == {"getUser", "getUserByEmail", "getUserById", "getProjectById",
                "getEmployeeById"}

WriteMethods == {"upsertUser", "createUser", "createProject", "updateProject",
                 "deleteProject", "createEmployee", "updateEmployee",
                 "deleteEmployee"}

methodsOf(object) ==
    IF object = "createFallbackStorage"
    THEN (ListMethods \cup ReadMethods \cup WriteMethods)
         \ {"getUsers", "getUserById", "createUser"}
    ELSE (ListMethods \cup ReadMethods \cup WriteMethods)
         \ {"getUser", "upsertUser"}

\* createFallbackStorage: the user methods and every write throw the
\* 'Database connection not established' error, lists are empty, the other
\* reads are null.
fallbackResult(m) ==
    IF m \in {"getUser", "getUserByEmail"} \cup WriteMethods THEN "unavailable"
    ELSE IF m \in ListMethods THEN "empty"
    ELSE "null"

\* StorageImplementation: the user and project methods go through db, which
\* the module never binds; the employee methods answer on the spot, writes
\* with their argument.
storageImplementationResult(m) ==
    IF m \in {"getEmployees"} THEN "empty"
    ELSE IF m = "getEmployeeById" THEN "null"
    ELSE IF m \in {"createEmployee", "updateEmployee", "deleteEmployee"}
    THEN "done"
    ELSE "reference error"

StorageCall(object, m) ==
    /\ boot.phase = "serving"
    /\ boot.storage = "fallback"
    /\ m \in methodsOf(object)
    /\ lastProbe' = [op |-> m, object |-> object, status |-> 0,
                     result |-> IF object = "createFallbackStorage"
                                THEN fallbackResult(m)
                                ELSE storageImplementationResult(m)]
    /\ UNCHANGED <<cfg, boot>>
    /\ BootFrame

NextBoot ==
    \/ \E a \in BOOLEAN : CreateServer(a)
    \/ DatabaseChanges
    \/ \E r \in HealthRoutes : GetHealth(r)
    \/ \E o \in StorageObjects :
         \E m \in ListMethods \cup ReadMethods \cup WriteMethods :
           StorageCall(o, m)

SpecBoot == InitBoot /\ [][NextBoot]_vars

\* ------------------------------------------------------------------------
\* Query text: PUT /api/departments/:id and FmbStorage.updateDepartment
\* ------------------------------------------------------------------------
\* The columns of the departments table.
departmentColumns == {"id", "name", "organization_id", "manager_id",
                      "description", "user_id", "created_at", "updated_at"}

DeptValues == 1..MaxDeptValue

DeptRowValues == [name : DeptValues, description : DeptValues,
                  managerId : {Null, 1}]

\* A JSON body: the handler hands req.body to the storage as it came.  The
\* key "injected" stands for a key whose text is SQL, such as
\* "name = 'x' where 1 = 1 --".
DeptKeys == <<"name", "description", "managerId", "injected">>

DeptBodies == [name : DeptValues \cup {Undefined},
               description : DeptValues \cup {Undefined},
               managerId : {Undefined, 1},
               injected : {Undefined, 1}]

\* key.replace(/([A-Z])/g, '_$1').toLowerCase(): any other text passes as is.
dbField(key) == IF key = "managerId" THEN "manager_id" ELSE key

\* The keys of the body whose value is not undefined, in the body's order.
definedKeys(body) == SelectSeq(DeptKeys, LAMBDA k : body[k] # Undefined)

\* updateDepartment: the SET list is the converted keys joined into the
\* statement text, the values and the id are the bound parameters.
setFields(body) ==
    [i \in 1..Len(definedKeys(body)) |-> dbField(definedKeys(body)[i])]

setParams(body, id) ==
    [i \in 1..Len(definedKeys(body)) |-> body[definedKeys(body)[i]]]
    \o <<id>>

\* The row the statement leaves when every field is a column.
updatedDept(old, body) ==
    [name |-> IF body.name # Undefined THEN body.name ELSE old.name,
     description |-> IF body.description # Undefined THEN body.description
                                                       ELSE old.description,
     managerId |-> IF body.managerId # Undefined THEN body.managerId
                                                   ELSE old.managerId]

InitQuery ==
    /\ build \in {"A", "B"}
    /\ ApiQuiet
    /\ StoreIdle
    /\ PoolIdle
    /\ ReqIdle
    /\ DataIdle
    /\ BootIdle
    /\ CleanIdle
    /\ InitIdle
    /\ RoleIdle
    /\ departments \in [DeptIds -> DeptRowValues \cup {NoDept}]
    /\ lastSql = NoSql

QueryFrame ==
    UNCHANGED <<apiVars, storeVars, poolVars, reqVars, dataVars, bootVars,
                cleanVars, initVars, roleVars>>

\* PUT /api/departments/:id: 403 unless the caller's stored role is admin,
\* then updateDepartment(id, req.body) and getDepartmentById: 404 when no row
\* has the id.  A statement whose text holds the caller's SQL does what that
\* text says, to any row.
PutDepartment(role, d, body) ==
    /\ IF role # "admin"
       THEN /\ lastSql' = [NoSql EXCEPT !.route = "PUT /api/departments/:id",
                                        !.id = d, !.status = 403]
            /\ UNCHANGED departments
       ELSE IF definedKeys(body) = <<>>
       THEN /\ lastSql' = [NoSql EXCEPT
                             !.route = "PUT /api/departments/:id", !.id = d,
                             !.status = IF departments[d] = NoDept
                                        THEN 404 ELSE 200]
            /\ UNCHANGED departments
       ELSE /\ IF body.injected # Undefined
               THEN departments' \in [DeptIds -> DeptRowValues \cup {NoDept}]
               ELSE departments' =
                      IF departments[d] = NoDept THEN departments
                      ELSE [departments EXCEPT
                              ![d] = updatedDept(departments[d], body)]
            /\ \E st \in {200, 404, 500} :
                 /\ body.injected = Undefined
                    => st = IF departments[d] = NoDept THEN 404 ELSE 200
                 /\ lastSql' = [route |-> "PUT /api/departments/:id",
                                id |-> d, status |-> st, executed |-> TRUE,
                                fields |-> setFields(body),
                                params |-> setParams(body, d)]
    /\ QueryFrame

NextQuery ==
    \E role \in {"admin", "employee"}, d \in DeptIds, body \in DeptBodies :
      PutDepartment(role, d, body)

SpecQuery == InitQuery /\ [][NextQuery]_vars

\* ------------------------------------------------------------------------
\* Cleanup of expired sessions: the stored procedure and the manager
\* ------------------------------------------------------------------------
\* @BatchSize of sp_CleanupExpiredSessions, scaled down.
BatchSize == 2

Least(a, b) == IF a < b THEN a ELSE b

InitClean ==
    /\ ApiIdle
    /\ StoreIdle
    /\ PoolIdle
    /\ ReqIdle
    /\ DataIdle
    /\ BootIdle
    /\ QueryIdle
    /\ InitIdle
    /\ RoleIdle
    /\ expiredRows \in 0..MaxExpired
    /\ proc = NoProc
    /\ lastDelete = NoDelete

CleanFrame ==
    UNCHANGED <<apiVars, storeVars, poolVars, reqVars, dataVars, bootVars,
                queryVars, initVars, roleVars>>

\* EXEC sp_CleanupExpiredSessions: @TotalDeleted = 0, @RowsDeleted = 1.
ProcStart ==
    /\ proc.pc \in {"idle", "done"}
    /\ proc' = [pc |-> "delete", rowsDeleted |-> 1, totalDeleted |-> 0,
                pauses |-> 0]
    /\ UNCHANGED <<expiredRows, lastDelete>>
    /\ CleanFrame

\* One turn of WHILE @RowsDeleted > 0: DELETE TOP (@BatchSize) ... WHERE
\* expires < GETDATE(), then the two SETs; the loop ends on a turn that
\* deleted nothing.
ProcDelete ==
    /\ proc.pc = "delete"
    /\ LET n == Least(BatchSize, expiredRows)
       IN /\ expiredRows' = expiredRows - n
          /\ lastDelete' = [by |-> "procedure", count |-> n]
          /\ proc' = [proc EXCEPT !.rowsDeleted = n,
                                  !.totalDeleted = @ + n,
                                  !.pc = IF n > 0 THEN "wait" ELSE "done"]
    /\ CleanFrame

\* WAITFOR DELAY '00:00:00.100' after a turn that deleted rows.
ProcWait ==
    /\ proc.pc = "wait"
    /\ proc' = [proc EXCEPT !.pc = "delete", !.pauses = @ + 1]
    /\ UNCHANGED <<expiredRows, lastDelete>>
    /\ CleanFrame

\* OptimizedSessionManager.cleanupExpiredSessions on a connected pool: one
\* DELETE of every expired row.  The first source names a column the table
\* does not have; its statement fails and the method returns 0.
ManagerCleanup(version) ==
    /\ lastDelete' = [by |-> "manager",
                      count |-> IF version = "v1" THEN 0 ELSE expiredRows]
    /\ expiredRows' = IF version = "v1" THEN expiredRows ELSE 0
    /\ UNCHANGED proc
    /\ CleanFrame

\* Another session passes its expiry while a cleanup runs or between two.
SessionExpires ==
    /\ expiredRows < MaxExpired
    /\ proc.totalDeleted < MaxExpired
    /\ expiredRows' = expiredRows + 1
    /\ UNCHANGED <<proc, lastDelete>>
    /\ CleanFrame

NextClean ==
    \/ ProcStart
    \/ ProcDelete
    \/ ProcWait
    \/ \E v \in {"v1", "v2"} : ManagerCleanup(v)
    \/ SessionExpires

SpecClean == InitClean /\ [][NextClean]_vars

\* ------------------------------------------------------------------------
\* OptimizedSessionManager.initializeSessionPool under concurrent callers
\* ------------------------------------------------------------------------
InitInit ==
    /\ ApiIdle
    /\ StoreIdle
    /\ PoolIdle
    /\ ReqIdle
    /\ DataIdle
    /\ BootIdle
    /\ QueryIdle
    /\ CleanIdle
    /\ RoleIdle
    /\ InitIdle

InitFrame ==
    UNCHANGED <<apiVars, storeVars, poolVars, reqVars, dataVars, bootVars,
                queryVars, cleanVars, roleVars>>

\* new sql.ConnectionPool(poolConfig): the first id not yet used.
freshPool ==
    CHOOSE p \in PoolIds :
      pools[p] = "none" /\ \A q \in PoolIds : q < p => pools[q] # "none"

\* initializeSessionPool up to its first await: return this.pool when it is
\* connected, else construct a pool, assign it to this.pool and start
\* connecting.  A call comes from the health monitor or the store, or from
\* a reconnect timer.
CallInitialize(c, fromTimer) ==
    /\ calls[c].pc = "idle"
    /\ fromTimer => retry.timers > 0
    /\ retry' = IF fromTimer THEN [retry EXCEPT !.timers = @ - 1] ELSE retry
    /\ IF thisPool # 0 /\ pools[thisPool] = "open"
       THEN /\ calls' = [calls EXCEPT ![c] = [pc |-> "returned",
                                             pool |-> thisPool]]
            /\ UNCHANGED <<pools, thisPool>>
       ELSE /\ \E p \in PoolIds : pools[p] = "none"
            /\ pools' = [pools EXCEPT ![freshPool] = "created"]
            /\ thisPool' = freshPool
            /\ calls' = [calls EXCEPT ![c] = [pc |-> "connecting",
                                             pool |-> freshPool]]
    /\ InitFrame

\* handleConnectionError: one more attempt and one more timer, up to the
\* maximum.
scheduleReconnect(r) ==
    IF r.attempts >= maxReconnectAttempts THEN r
    ELSE [attempts |-> r.attempts + 1, timers |-> r.timers + 1]

\* await this.pool.connect() of call c completes: on success the pool this
\* call constructed is open, reconnectAttempts is reset and this.pool, as it
\* is now, is returned; on failure handleConnectionError runs and the call
\* throws.
ConnectCompletes(c, ok) ==
    /\ calls[c].pc = "connecting"
    /\ pools' = [pools EXCEPT ![calls[c].pool] = IF ok THEN "open"
                                                       ELSE "failed"]
    /\ retry' = IF ok THEN [retry EXCEPT !.attempts = 0]
                ELSE scheduleReconnect(retry)
    /\ calls' = [calls EXCEPT ![c] = [pc |-> IF ok THEN "returned"
                                                   ELSE "threw",
                                      pool |-> IF ok THEN thisPool ELSE 0]]
    /\ UNCHANGED thisPool
    /\ InitFrame

\* The caller has its answer and may call again.
CallEnds(c) ==
    /\ calls[c].pc \in {"returned", "threw"}
    /\ calls' = [calls EXCEPT ![c] = NoInitCall]
    /\ UNCHANGED <<pools, thisPool, retry>>
    /\ InitFrame

\* The 'error' event of an open pool: the connection is gone and the handler
\* registered at construction runs handleConnectionError.
PoolEmitsError(p) ==
    /\ pools[p] = "open"
    /\ pools' = [pools EXCEPT ![p] = "failed"]
    /\ retry' = scheduleReconnect(retry)
    /\ UNCHANGED <<thisPool, calls>>
    /\ InitFrame

NextInit ==
    \/ \E c \in CallIds, t \in BOOLEAN : CallInitialize(c, t)
    \/ \E c \in CallIds, ok \in BOOLEAN : ConnectCompletes(c, ok)
    \/ \E c \in CallIds : CallEnds(c)
    \/ \E p \in PoolIds : PoolEmitsError(p)

SpecInit == InitInit /\ [][NextInit]_vars

\* ------------------------------------------------------------------------
\* Role testing: POST /api/admin/test-role and /api/admin/restore-role
\* ------------------------------------------------------------------------
InitRole ==
    /\ ApiIdle
    /\ StoreIdle
    /\ PoolIdle
    /\ ReqIdle
    /\ DataIdle
    /\ BootIdle
    /\ QueryIdle
    /\ CleanIdle
    /\ InitIdle
    /\ storedRole \in validRoles
    /\ markers = [s \in Sids |-> NoMarker]
    /\ lastRoleReq = NoRoleReq

RoleFrame ==
    UNCHANGED <<apiVars, storeVars, poolVars, reqVars, dataVars, bootVars,
                queryVars, cleanVars, initVars>>

\* activeStorage.updateUserRole(userId, role): FmbStorage has no such
\* method, so the call throws before anything is written.
updateUserRole(old, role) ==
    IF "updateUserRole" \in FmbStorageMethods
    THEN [threw |-> FALSE, role |-> role]
    ELSE [threw |-> TRUE, role |-> old]

\* POST /api/admin/test-role in session s of the user: 403 unless the stored
\* role is admin, 400 for a role outside the list, then the two session
\* markers are set and the stored role is changed; what is thrown is answered
\* 500 by the catch block.  The session is saved when the response ends.
TestRole(s, testRole) ==
    LET route == "POST /api/admin/test-role"
        u == updateUserRole(storedRole, testRole)
    IN /\ IF storedRole # "admin"
          THEN /\ lastRoleReq' = [route |-> route, sid |-> s, status |-> 403,
                                  testRole |-> testRole]
               /\ UNCHANGED <<storedRole, markers>>
          ELSE IF testRole \notin validRoles
          THEN /\ lastRoleReq' = [route |-> route, sid |-> s, status |-> 400,
                                  testRole |-> testRole]
               /\ UNCHANGED <<storedRole, markers>>
          ELSE /\ markers' = [markers EXCEPT
                                ![s] = [originalRole |-> storedRole,
                                        testingRole |-> TRUE]]
               /\ storedRole' = u.role
               /\ lastRoleReq' = [route |-> route, sid |-> s,
                                  status |-> IF u.threw THEN 500 ELSE 200,
                                  testRole |-> testRole]
       /\ RoleFrame

\* POST /api/admin/restore-role in session s: 400 without both markers, else
\* the stored role is set to originalRole and the markers are deleted; a
\* throw of updateUserRole skips the deletes and is answered 500.
RestoreRole(s) ==
    LET route == "POST /api/admin/restore-role"
        u == updateUserRole(storedRole, markers[s].originalRole)
    IN /\ IF markers[s].originalRole = "none" \/ ~markers[s].testingRole
          THEN /\ lastRoleReq' = [route |-> route, sid |-> s, status |-> 400,
                                  testRole |-> "none"]
               /\ UNCHANGED <<storedRole, markers>>
          ELSE /\ storedRole' = u.role
               /\ markers' = IF u.threw THEN markers
                             ELSE [markers EXCEPT ![s] = NoMarker]
               /\ lastRoleReq' = [route |-> route, sid |-> s,
                                  status |-> IF u.threw THEN 500 ELSE 200,
                                  testRole |-> "none"]
       /\ RoleFrame

\* GET /api/admin/test-status reads the stored role and the markers.
GetTestStatus(s) ==
    /\ lastRoleReq' = [route |-> "GET /api/admin/test-status", sid |-> s,
                       status |-> 200, testRole |-> "none"]
    /\ UNCHANGED <<storedRole, markers>>
    /\ RoleFrame

NextRole ==
    \/ \E s \in Sids, r \in validRoles \cup {"bogus"} : TestRole(s, r)
    \/ \E s \in Sids : RestoreRole(s)
    \/ \E s \in Sids : GetTestStatus(s)

SpecRole == InitRole /\ [][NextRole]_vars

\* ------------------------------------------------------------------------
\* Properties of the REST layer and the login flow
\* ------------------------------------------------------------------------
\* The allow-list the specification gives each mutating route: project and
\* task mutations are for admin and project_manager, role changes for admin.
SpecAllowList(route) ==
    IF route \in {"POST /api/users/change-role",
                  "POST /api/admin/users/:userId/role"}
    THEN {"admin"}
    ELSE {"admin", "project_manager"}

\* C1: on every mutating route a caller whose role is outside the route's
\* allow-list gets 403, no storage write is issued and the stored data is
\* unchanged.
C1_ForbiddenOutsideAllowList ==
    [][(/\ resp'.route \in Routes
        /\ resp'.handlerRan
        /\ resp'.caller # 0
        /\ resp'.role \notin SpecAllowList(resp'.route))
       => (/\ resp'.status = 403
           /\ resp'.writes = 0
           /\ users' = users /\ projects' = projects /\ tasks' = tasks)]_apiVars

\* C2: the stored role of an existing user changes only in a request whose
\* caller has the admin role.
C2_RoleChangesOnlyByAdmin ==
    [][\A u \in UserIds :
          (users[u] # NoRow /\ users'[u] # users[u])
          => resp'.role = "admin"]_apiVars

\* C3: in on-premises production an unauthenticated request to a protected
\* route gets 401, is never given the test identity, and the handler does
\* not run.
C3_NoBypassOnPrem ==
    (useFmbAuth /\ resp.route \in Routes /\ resp.anon)
    => (resp.status = 401 /\ ~resp.testUser /\ ~resp.handlerRan)

C3_Witness ==
    /\ useFmbAuth /\ build = "B"
    /\ resp.route = "DELETE /api/projects/:id"
    /\ resp.anon /\ resp.status = 401

C5_LoginKeepsRole ==
    [][resp'.route = "POST /saml/acs"
       => \A u \in UserIds : users[u] # NoRow => users'[u] = users[u]]_apiVars

\* C6: an admin's role change on their own id with a role other than admin
\* is answered 400 and the admin keeps the admin role; on another existing
\* user with a valid role it succeeds and the stored role is the requested
\* one.
C6_AdminRoleChange ==
    (/\ resp.route = "POST /api/admin/users/:userId/role"
     /\ resp.role = "admin")
    => /\ (resp.target = resp.caller /\ resp.body # "admin")
             => (resp.status = 400 /\ users[resp.caller] = "admin")
       /\ (/\ resp.target # resp.caller
           /\ users[resp.target] # NoRow
           /\ resp.body \in validRoles)
             => (resp.status = 200 /\ users[resp.target] = resp.body)

\* C14: whenever POST /saml/acs answers with the success redirect, the
\* session the response's cookie names holds the authenticated state, so
\* the next request carrying that cookie passes the authentication check.
C14_AcsPersistsAuthentication ==
    (resp.route = "POST /saml/acs" /\ resp.status = 302
     /\ resp.location = "/")
    => Authenticated(resp.sid)

\* C15: when the assertion is invalid or yields no user the callback leaves
\* every session as it was (none becomes authenticated) and redirects to
\* the error page with a reason code that names the cause.
C15_FailureRedirectsWithReason ==
    [][resp'.cause # "none"
       => /\ sessions' = sessions
          /\ resp'.status = 302
          /\ resp'.location = "/login-error"
          /\ resp'.reason = resp'.cause]_apiVars

\* C16: a successful SAML callback for an e-mail that has no user row
\* creates the row of that e-mail and no other, with role employee, the
\* least-privileged non-viewer role of the enumeration.
C16_FirstLoginCreatesEmployee ==
    [][(resp'.route = "POST /saml/acs" /\ resp'.location = "/"
        /\ users[resp'.caller] = NoRow)
       => /\ users'[resp'.caller] = "employee"
          /\ \A u \in UserIds \ {resp'.caller} : users'[u] = users[u]]_apiVars

\* ------------------------------------------------------------------------
\* Properties of the session store
\* ------------------------------------------------------------------------
\* A row whose expiry lies before the database clock.
InPast(row, t) == row.present /\ row.expires # NullExpires /\ row.expires < t

\* C7: while the store's pool is disconnected every session operation
\* reports an error to its caller, and a request is answered with the
\* retry-able 503 -- never with 401 or an empty session.
C7_UnavailableIsRetryable ==
    /\ (lastOp.op \in StoreOps /\ storePool # "connected") => lastOp.err
    /\ (lastOp.op = "http" /\ storePool # "connected") =>
           (lastOp.status = 503 /\ lastOp.result # "empty")

C10_CleanupRemovesExpired ==
    [][(lastOp'.op = "cleanup" /\ mgrPool = "connected") =>
          \A s \in Sids :
              /\ InPast(rows[s], now) => ~rows'[s].present
              /\ ~InPast(rows[s], now) => rows'[s] = rows[s]]_vars

\* C11: set and touch are upserts -- after either has completed for a
\* session id with the expiry the cookie's max-age gives (now + sessionTtl),
\* a row for that id exists and carries that expiry, which is in the future.
C11_SetAndTouchUpsert ==
    (lastOp.op \in {"set", "touch"} /\ ~lastOp.err
     /\ lastOp.expires = now + sessionTtl)
    => /\ rows[lastOp.sid] = SessRow(now + sessionTtl)
       /\ rows[lastOp.sid].expires > now

\* ------------------------------------------------------------------------
\* Properties of the session pool manager
\* ------------------------------------------------------------------------
\* The delay before attempt n: 2000 * 2^(n-1) ms.
SpecDelay == [n \in 1..5 |-> CASE n = 1 -> 2000 [] n = 2 -> 4000
                               [] n = 3 -> 8000 [] n = 4 -> 16000
                               [] n = 5 -> 32000]

C12_ConcurrentSetsLastWriteWins ==
    lastReq.kind = "page" =>
        /\ ~lastReq.err
        /\ lastReq.sid \notin loggedOut => stored[lastReq.sid] = lastReq.payload

\* C13: once a logout has been answered the session is gone from the store
\* and every request that arrives later with the old session id is
\* answered 401 (or, for another logout, the redirect).
C13_LogoutIsFinal ==
    /\ \A s \in loggedOut : stored[s] = NoPayload
    /\ lastReq.afterLogout => lastReq.status \in {401, 302}

\* ------------------------------------------------------------------------
\* Properties of the project data
\* ------------------------------------------------------------------------
\* C18: a partial update changes only the fields its payload carries: after
\* a PATCH that answered 200, every field of the project that is absent
\* from the payload has the value it had before (none was set to NULL or to
\* its default), and no other project changed.  The updated_at timestamp
\* is maintained by the storage layer and is not one of these fields.
C18_PartialUpdateKeepsAbsentFields ==
    [][(lastCall'.route = "PATCH /api/projects/:id" /\ lastCall'.status = 200)
       => /\ \A k \in ProjectFields \ lastCall'.keys :
                projectRows'[lastCall'.id][k] = projectRows[lastCall'.id][k]
          /\ \A q \in ProjectIds \ {lastCall'.id} :
                projectRows'[q] = projectRows[q]]_dataVars

\* A PATCH carrying only the status has completed a project whose date
\* range and template flag are set.
C18_Witness ==
    /\ lastCall.route = "PATCH /api/projects/:id"
    /\ lastCall.status = 200
    /\ lastCall.keys = {"status"}
    /\ lastCall.setsUpdatedAt
    /\ projectRows[lastCall.id].status = "completed"
    /\ projectRows[lastCall.id].isTemplate = 1
    /\ projectRows[lastCall.id].startDate # Null
    /\ projectRows[lastCall.id].endDate # Null

\* C20: creating a project whose end date is earlier than its start date
\* is answered with 400 and persists no row.
C20_InvertedDatesRejected ==
    [][(lastCall'.route = "POST /api/projects" /\ lastCall'.endsBeforeStart)
       => /\ lastCall'.status = 400
          /\ projectRows' = projectRows]_dataVars

\* C17: DELETE /api/projects/:id answers 204 exactly when the project
\* existed, and then the row is gone; it answers 404 when the project did
\* not exist.
C17_DeleteReportsExistence ==
    [][lastCall'.route = "DELETE /api/projects/:id"
       => IF projectRows[lastCall'.id] # NoProjectRow
          THEN /\ lastCall'.status = 204
               /\ projectRows'[lastCall'.id] = NoProjectRow
          ELSE lastCall'.status = 404]_dataVars

\* C19: deleting a project removes the project, its tasks and its
\* project_employees rows and no time entry, also when time entries refer
\* to the project or to its tasks.
C19_DeleteCascadesButKeepsEntries ==
    [][(lastCall'.route = "DELETE /api/projects/:id"
        /\ projectRows[lastCall'.id] # NoProjectRow)
       => /\ projectRows'[lastCall'.id] = NoProjectRow
          /\ \A t \in TaskIds : taskRows'[t] # lastCall'.id
          /\ lastCall'.id \notin projectEmployees'
          /\ timeEntries' = timeEntries]_dataVars

\* C21: a request to create a time entry that is otherwise well formed is
\* accepted exactly when 0 <= hours <= 24, and a rejected request persists
\* no row.
C21_HoursBoundaryInclusive ==
    [][(lastCall'.route = "POST /api/time-entries" /\ lastCall'.wellFormed)
       => /\ lastCall'.status = 201
             <=> (lastCall'.hours >= 0 /\ lastCall'.hours <= 24)
          /\ lastCall'.status # 201 => timeEntries' = timeEntries]_dataVars

\* ------------------------------------------------------------------------
\* Properties of startup, health and the fallback storage
\* ------------------------------------------------------------------------
\* C22: in every environment configuration the serving process acts on one
\* mode: startup storage, the storage of the routes, the session store, the
\* authentication strategy and the user shape extractUserId reads are all
\* the on-premises production ones or all the fallback ones.
C22_OneMode ==
    boot.phase = "serving"
    => /\ boot.storage = "mssql" <=> boot.auth = "saml"
       /\ getStorage = "relational" <=> boot.auth = "saml"
       /\ boot.store = "mssql" <=> boot.auth = "saml"
       /\ extractUserIdIsFmb <=> boot.auth = "saml"

\* C23: in on-premises production mode the server serves only when the
\* database settings, the SAML values and a session secret of at least 32
\* characters are all present.
C23_FailFastOnMissingConfig ==
    (onPremProduction /\ boot.phase = "serving")
    => (cfg.db /\ cfg.saml /\ cfg.secretLen >= minSecretLen)

\* C24: in on-premises production mode, while storage is the fallback, every
\* health request is answered 503.
C24_DegradedIsReported ==
    [][(lastProbe'.op \in HealthRoutes /\ onPremProduction
        /\ boot.storage = "fallback")
       => lastProbe'.status = 503]_bootVars

\* C25: in the fallback storage every list is empty, every single read is
\* null without an error, and every write fails with the unavailable error.
C25_FallbackContract ==
    [][lastProbe'.object \in StorageObjects
       => /\ lastProbe'.op \in ListMethods => lastProbe'.result = "empty"
          /\ lastProbe'.op \in ReadMethods => lastProbe'.result = "null"
          /\ lastProbe'.op \in WriteMethods
             => lastProbe'.result = "unavailable"]_bootVars

\* C26: the text of every statement the relational storage runs is made of
\* fixed text and column names only; what the request supplied is in the
\* bound parameters.
C26_NoUntrustedQueryText ==
    [][lastSql'.executed
       => \A i \in 1..Len(lastSql'.fields) :
            lastSql'.fields[i] \in departmentColumns]_queryVars

\* C27: no error raised while a request to an authenticated route is handled
\* is passed to next(err) for the framework to answer; the application
\* answers every request itself.
C27_ErrorsTranslated ==
    [][lastOp'.op = "http" => ~lastOp'.err]_storeVars

\* C28: every DELETE a cleanup pass runs removes at most the batch size of
\* rows.
C28_CleanupInBatches == lastDelete.count <= BatchSize

\* C29: every open pool is the one the manager refers to, so at most one
\* pool is open.
C29_AtMostOneOpenPool == \A p \in PoolIds : pools[p] = "open" => thisPool = p

\* C30: a restore-role request in a session in which test-role was accepted
\* leaves the stored role admin and the session without its two markers.
C30_RoleTestingReversible ==
    [][(lastRoleReq'.route = "POST /api/admin/restore-role"
        /\ markers[lastRoleReq'.sid].testingRole)
       => /\ storedRole' = "admin"
          /\ markers'[lastRoleReq'.sid] = NoMarker]_roleVars

====
